---- MODULE Spec2Model ----
(***************************************************************************)
(* State-machine model of the GEOMI dashboard front end: the App           *)
(* component (App.jsx), the slope panel (SlopeMapPanel.jsx), the useApi    *)
(* hook and the MapView component (MapView.jsx) with the map surface it    *)
(* drives.                                                                 *)
(*                                                                         *)
(* Encoding of JavaScript values.                                          *)
(*  - a nullable object or array x is a sequence: <<>> is null/undefined,  *)
(*    <<v>> is the value v;                                                *)
(*  - a string of comma separated tokens is the sequence of its tokens,    *)
(*    <<>> being null or the empty string (both falsy);                    *)
(*  - a geographic point is <<lng, lat>>, <<>> being null; coordinates are *)
(*    integers counting units of 0.0005 degree;                            *)
(*  - a number that comes out of Number() and float division is a ratio    *)
(*    [num, den] in lowest terms, [0, 0] being NaN;                        *)
(*  - a label is the sequence of the numbers printed in it: <<a>> is       *)
(*    "> a%", <<a, b>> is "a - b%".                                        *)
(* The feature property `slope` (a rounded copy of the cell value) is not  *)
(* modelled: nothing below reads it.                                       *)
(***************************************************************************)
EXTENDS Integers, Sequences, FiniteSets, TLC

VARIABLES
    drawingMode,    \* App state: drawing mode on/off
    slopeRectBbox,  \* App state: committed rectangle (token sequence), <<>> = null
    slopeRanges,    \* App state / MapView prop: nullable range table
    slopeData,      \* App state: nullable grid response
    layers,         \* App state: layer visibility record
    slopeApi,       \* useApi(fetchSlope) hook state: data, loading, error
    inflight,       \* pending handleGenerateSlope invocations, in request order
    lastArrival,    \* history: the latest slope response that arrived
    loaded,         \* MapView state: map 'load' event seen
    drawStartRef,   \* MapView ref: start point of the gesture, <<>> = null
    map,            \* the maplibre surface: sources, layers, listeners, cursor
    thrown,         \* an exception escaped the last handler or effect
    emitted,        \* history: what the last handler emitted
    downSinceArm,   \* history: a pointer-down was seen since drawing was armed
    concessions,    \* App state: nullable concessions collection
    userGeoJSON,    \* App state: nullable file the user loaded
    elevationData,  \* App state: nullable elevation profile
    apis,           \* the other useApi hooks' state: data, loading, error
    pending         \* the other hooks' executions in flight, in start order

vars ==
    << drawingMode, slopeRectBbox, slopeRanges, slopeData, layers, slopeApi,
       inflight, lastArrival, loaded, drawStartRef, map, thrown, emitted,
       downSinceArm, concessions, userGeoJSON, elevationData, apis, pending >>

overlayVars == << concessions, userGeoJSON, elevationData, apis, pending >>

-----------------------------------------------------------------------------
(* Bounds of the model *)

\* longest range table the add button may produce
MaxRanges == 8
\* slope requests in flight at once, where nothing else limits them
MaxInflight == 2
\* listeners per event kind after which the slope layer is not re-created
MaxHandlers == 2
\* largest percentage a range appended by the add button may end at
MaxPercent == 125

-----------------------------------------------------------------------------
(* JavaScript helpers *)

\* a || b for a nullable object or array a
OrElse(a, b) == IF a = <<>> THEN b ELSE a

Min(a, b) == IF a <= b THEN a ELSE b

Max(a, b) == IF a >= b THEN a ELSE b

Abs(a) == IF a < 0 THEN 0 - a ELSE a

RECURSIVE Gcd(_, _)
Gcd(a, b) == IF b = 0 THEN a ELSE Gcd(b, a % b)

NaN == [num |-> 0, den |-> 0]

IsNaN(r) == r.den = 0

\* the ratio a/b in lowest terms, b > 0
Ratio(a, b) ==
    LET g == Gcd(Abs(a), b)
    IN  [num |-> a \div g, den |-> b \div g]

RSub(a, b) ==
    IF IsNaN(a) \/ IsNaN(b) THEN NaN
    ELSE Ratio(a.num * b.den - b.num * a.den, a.den * b.den)

RAdd(a, b) ==
    IF IsNaN(a) \/ IsNaN(b) THEN NaN
    ELSE Ratio(a.num * b.den + b.num * a.den, a.den * b.den)

\* a / n for an integer n (n = 0 gives Infinity or NaN; no cell exists then)
RDivInt(a, n) ==
    IF IsNaN(a) \/ n <= 0 THEN NaN ELSE Ratio(a.num, a.den * n)

RMulInt(k, a) == IF IsNaN(a) THEN NaN ELSE Ratio(k * a.num, a.den)

\* the decimal text of the numbers the model uses
Digits == << "0", "1", "2", "3", "4", "5", "6", "7", "8", "9" >>

\* `${k}` of a template literal
Str(k) == Digits[k + 1]

\* Number(token): "" is 0, a non-numeric token is NaN
Number(tok) ==
    IF tok = "" THEN Ratio(0, 1)
    ELSE IF \E k \in 1..Len(Digits) : Digits[k] = tok
         THEN Ratio((CHOOSE k \in 1..Len(Digits) : Digits[k] = tok) - 1, 1)
         ELSE NaN

-----------------------------------------------------------------------------
(* SlopeMapPanel.jsx: the default table *)

Range(lo, hi, col, lab) == [min |-> lo, max |-> hi, color |-> col, label |-> lab]

DEFAULT_RANGES ==
    << Range(0, 3, "#38a800", <<0, 3>>),
       Range(3, 7, "#267300", <<3, 7>>),
       Range(7, 12, "#a8a800", <<7, 12>>),
       Range(12, 25, "#005500", <<12, 25>>),
       Range(25, 50, "#ffff00", <<25, 50>>),
       Range(50, 75, "#ff8c00", <<50, 75>>),
       Range(75, 999, "#ff0000", <<75>>) >>

-----------------------------------------------------------------------------
(* MapView.jsx: classification of one cell (lines 203-220) *)

\* mutant: the table is used as given, null included
TableNoDefault(prop) == prop

\* const ranges = slopeRanges || []
TableOrEmpty(prop) == OrElse(prop, << <<>> >>)

\* let fillColor = '#888888'
InitialFill == "#888888"

\* mutant: the walk has no break, the last matching range wins
WalkColorLastMatch(val, ranges) ==
    LET hits == { i \in 1..Len(ranges) :
                    val >= ranges[i].min /\ val < ranges[i].max }
    IN  IF hits = {} THEN InitialFill
        ELSE ranges[CHOOSE i \in hits : \A j \in hits : i >= j].color

\* mutant: the upper bound of a range is inclusive
WalkColorInclusive(val, ranges) ==
    LET hits == { i \in 1..Len(ranges) :
                    val >= ranges[i].min /\ val <= ranges[i].max }
    IN  IF hits = {} THEN InitialFill
        ELSE ranges[CHOOSE i \in hits : \A j \in hits : i <= j].color

\* the for..of walk: the color of the first range with min <= val < max
WalkColor(val, ranges) ==
    LET hits == { i \in 1..Len(ranges) :
                    val >= ranges[i].min /\ val < ranges[i].max }
    IN  IF hits = {} THEN InitialFill
        ELSE ranges[CHOOSE i \in hits : \A j \in hits : i <= j].color

\* mutant: the last range catches only what the walk left unmatched
CatchAllIfUnmatched(val, ranges, fillColor) ==
    LET n == Len(ranges)
    IN  IF fillColor = InitialFill /\ n > 0 /\ val >= ranges[n].min
        THEN ranges[n].color
        ELSE fillColor

\* "Last range catches everything above": runs after the walk, matched or not
CatchAll(val, ranges, fillColor) ==
    LET n == Len(ranges)
    IN  IF n > 0 /\ val >= ranges[n].min
        THEN IF ranges[n].color # "" THEN ranges[n].color ELSE fillColor
        ELSE fillColor

Classify(val, ranges) == CatchAll(val, ranges, WalkColor(val, ranges))

-----------------------------------------------------------------------------
(* MapView.jsx: tessellation of the grid (lines 194-244) *)

\* const slopeGrid = slopes_percent || slopes
SlopeGrid(sd) == OrElse(sd.slopes_percent, sd.slopes)

\* const [minx, miny, maxx, maxy] = bboxStr.split(',').map(Number)
ParseBbox(bboxStr) ==
    [ i \in 1..4 |-> IF i <= Len(bboxStr) THEN Number(bboxStr[i]) ELSE NaN ]

\* const n = grid_size || slopeGrid.length
GridN(sd, grid) == IF sd.grid_size # 0 THEN sd.grid_size ELSE Len(grid)

\* mutant: the column steps along y and the row along x
CellFeatureTransposed(r, c, val, ranges, b, n) ==
    LET dx == RDivInt(RSub(b[3], b[1]), n)
        dy == RDivInt(RSub(b[4], b[2]), n)
        x0 == RAdd(b[1], RMulInt(r, dx))
        y0 == RAdd(b[2], RMulInt(c, dy))
        x1 == RAdd(x0, dx)
        y1 == RAdd(y0, dy)
    IN  [ ring  |-> << <<x0, y0>>, <<x1, y0>>, <<x1, y1>>, <<x0, y1>>, <<x0, y0>> >>,
          color |-> Classify(val, ranges) ]

\* the feature pushed for cell (r, c), r and c counted from 0
CellFeature(r, c, val, ranges, b, n) ==
    LET dx == RDivInt(RSub(b[3], b[1]), n)
        dy == RDivInt(RSub(b[4], b[2]), n)
        x0 == RAdd(b[1], RMulInt(c, dx))
        y0 == RAdd(b[2], RMulInt(r, dy))
        x1 == RAdd(x0, dx)
        y1 == RAdd(y0, dy)
    IN  [ ring  |-> << <<x0, y0>>, <<x1, y0>>, <<x1, y1>>, <<x0, y1>>, <<x0, y0>> >>,
          color |-> Classify(val, ranges) ]

RECURSIVE RowsFrom(_, _, _, _, _)
\* the features of rows r.. of the grid, in the order they are pushed
RowsFrom(grid, r, ranges, b, n) ==
    IF r > Len(grid) THEN <<>>
    ELSE LET row == grid[r][1]
         IN  [ c \in 1..Len(row) |-> CellFeature(r - 1, c - 1, row[c], ranges, b, n) ]
             \o RowsFrom(grid, r + 1, ranges, b, n)

\* a TypeError escapes the loops: a row is null (slopeGrid[r].length), or the
\* table is null when a cell is classified (for..of over null)
TessellateThrows(grid, table) ==
    \/ \E r \in 1..Len(grid) : grid[r] = <<>>
    \/ table = <<>> /\ \E r \in 1..Len(grid) : Len(grid[r][1]) > 0

\* mutant: only the first row of the grid is tessellated
TessellateOneRow(sd, rangesProp) ==
    LET grid == SlopeGrid(sd)[1]
    IN  RowsFrom(SubSeq(grid, 1, 1), 1, TableOrEmpty(rangesProp)[1],
                 ParseBbox(sd.bbox), GridN(sd, grid))

\* the FeatureCollection's features for slope data sd (grid and bbox present)
Tessellate(sd, rangesProp) ==
    LET grid == SlopeGrid(sd)[1]
    IN  RowsFrom(grid, 1, TableOrEmpty(rangesProp)[1], ParseBbox(sd.bbox),
                 GridN(sd, grid))

-----------------------------------------------------------------------------
(* The maplibre surface, as MapView.jsx uses it *)

Call(op, id) == [op |-> op, id |-> id]

Logged(m, op, id) == [m EXCEPT !.log = Append(@, Call(op, id))]

GetSource(m, id) == id \in m.sources

GetLayer(m, id) == \E i \in 1..Len(m.layers) : m.layers[i].id = id

\* addSource throws when the id is taken
AddSource(m, id) ==
    IF GetSource(m, id) THEN [Logged(m, "addSource", id) EXCEPT !.errors = TRUE]
    ELSE [Logged(m, "addSource", id) EXCEPT !.sources = @ \cup {id}]

\* addLayer reports an error and adds nothing when the id is taken or the
\* source is unknown
AddLayer(m, id, src) ==
    IF GetLayer(m, id) \/ ~GetSource(m, src)
    THEN [Logged(m, "addLayer", id) EXCEPT !.errors = TRUE]
    ELSE [Logged(m, "addLayer", id) EXCEPT
            !.layers = Append(@, [id |-> id, source |-> src])]

RemoveLayer(m, id) ==
    IF ~GetLayer(m, id) THEN [Logged(m, "removeLayer", id) EXCEPT !.errors = TRUE]
    ELSE [Logged(m, "removeLayer", id) EXCEPT
            !.layers = SelectSeq(@, LAMBDA l : l.id # id)]

\* removeSource refuses while a layer still uses the source
RemoveSource(m, id) ==
    IF ~GetSource(m, id) \/ \E i \in 1..Len(m.layers) : m.layers[i].source = id
    THEN [Logged(m, "removeSource", id) EXCEPT !.errors = TRUE]
    ELSE [Logged(m, "removeSource", id) EXCEPT !.sources = @ \ {id}]

\* map.on(type, 'slope-cells', listener)
OnSlopeCells(m, type) ==
    [Logged(m, "on", type) EXCEPT !.handlers[type] = @ + 1]

-----------------------------------------------------------------------------
(* MapView.jsx: the slope effect (lines 182-282) *)

\* mutant: the layers and the source are removed without asking for them
RemoveSlopeUnchecked(m) ==
    LET m3 == RemoveSource(RemoveLayer(RemoveLayer(m, "slope-cells"),
                                       "slope-cells-outline"), "slope-cells")
    IN  IF GetSource(m3, "slope-cells") THEN m3 ELSE [m3 EXCEPT !.slopeFC = <<>>]

\* mutant: the source is removed before its layers
RemoveSlopeSourceFirst(m) ==
    LET m1 == IF GetSource(m, "slope-cells") THEN RemoveSource(m, "slope-cells") ELSE m
        m2 == IF GetLayer(m1, "slope-cells") THEN RemoveLayer(m1, "slope-cells") ELSE m1
        m3 == IF GetLayer(m2, "slope-cells-outline")
              THEN RemoveLayer(m2, "slope-cells-outline") ELSE m2
    IN  IF GetSource(m3, "slope-cells") THEN m3 ELSE [m3 EXCEPT !.slopeFC = <<>>]

\* lines 186-192: slopeData is null
RemoveSlope(m) ==
    LET m1 == IF GetLayer(m, "slope-cells") THEN RemoveLayer(m, "slope-cells") ELSE m
        m2 == IF GetLayer(m1, "slope-cells-outline")
              THEN RemoveLayer(m1, "slope-cells-outline") ELSE m1
        m3 == IF GetSource(m2, "slope-cells")
              THEN RemoveSource(m2, "slope-cells") ELSE m2
    IN  IF GetSource(m3, "slope-cells") THEN m3 ELSE [m3 EXCEPT !.slopeFC = <<>>]

\* mutant: the source and its layers are added without asking getSource
UpsertSlopeAlwaysAdd(m, fc) ==
    LET m1 == IF GetSource(m, "slope-cells") THEN AddSource(m, "slope-cells")
              ELSE [AddSource(m, "slope-cells") EXCEPT !.slopeFC = fc]
    IN  IF m1.errors THEN m1
        ELSE AddLayer(AddLayer(m1, "slope-cells", "slope-cells"),
                      "slope-cells-outline", "slope-cells")

\* lines 246-281: publish the collection fc
UpsertSlope(m, fc) ==
    IF GetSource(m, "slope-cells")
    THEN Logged([Logged(m, "setData", "slope-cells") EXCEPT !.slopeFC = fc],
                "setPaintProperty", "slope-cells")
    ELSE LET m1 == [AddSource(m, "slope-cells") EXCEPT !.slopeFC = fc]
             m2 == AddLayer(m1, "slope-cells", "slope-cells")
             m3 == AddLayer(m2, "slope-cells-outline", "slope-cells")
             m4 == OnSlopeCells(m3, "click")
             m5 == OnSlopeCells(m4, "mouseenter")
         IN  OnSlopeCells(m5, "mouseleave")

\* the effect body, run when the map exists and is loaded
SlopeEffectBody(m, sdProp, rangesProp) ==
    IF sdProp = <<>> THEN RemoveSlope(m)
    ELSE LET sd == sdProp[1]
         IN  IF SlopeGrid(sd) = <<>> \/ sd.bbox = <<>> THEN m
             ELSE IF TessellateThrows(SlopeGrid(sd)[1], TableOrEmpty(rangesProp))
                  THEN m
                  ELSE UpsertSlope(m, Tessellate(sd, rangesProp))

SlopeEffectThrows(sdProp, rangesProp) ==
    /\ sdProp # <<>>
    /\ SlopeGrid(sdProp[1]) # <<>>
    /\ sdProp[1].bbox # <<>>
    /\ TessellateThrows(SlopeGrid(sdProp[1])[1], TableOrEmpty(rangesProp))

\* if (!map || !loaded) return
SlopeEffect(m, isLoaded, sdProp, rangesProp) ==
    IF ~isLoaded THEN m ELSE SlopeEffectBody(m, sdProp, rangesProp)

-----------------------------------------------------------------------------
(* MapView.jsx: the effects of the concessions, user-data and intersection  *)
(* overlays (lines 102-179); none of them has a branch for a null prop      *)

\* map.on(type, 'concessions-fill', listener)
OnConcessionsFill(m, type) ==
    [Logged(m, "on", "concessions-fill") EXCEPT !.fillHandlers[type] = @ + 1]

\* lines 102-132: the concessions overlay
ConcessionsEffect(m, isLoaded, prop) ==
    IF ~isLoaded \/ prop = <<>> THEN m
    ELSE IF GetSource(m, "concessions")
         THEN [Logged(m, "setData", "concessions") EXCEPT !.geojson.concessions = prop]
         ELSE LET m1 == [AddSource(m, "concessions") EXCEPT !.geojson.concessions = prop]
                  m2 == AddLayer(m1, "concessions-fill", "concessions")
                  m3 == AddLayer(m2, "concessions-line", "concessions")
                  m4 == OnConcessionsFill(m3, "click")
                  m5 == OnConcessionsFill(m4, "mouseenter")
              IN  OnConcessionsFill(m5, "mouseleave")

\* lines 153-158: the view is fitted to the file's coordinates, if it has any
FitBounds(m, file) ==
    IF file.bounds = <<>> THEN m
    ELSE [Logged(m, "fitBounds", "map") EXCEPT !.fit = file.bounds]

\* lines 134-160: the user-data overlay
UserEffect(m, isLoaded, prop) ==
    IF ~isLoaded \/ prop = <<>> THEN m
    ELSE IF GetSource(m, "user-data")
         THEN FitBounds([Logged(m, "setData", "user-data") EXCEPT !.geojson.user = prop],
                        prop[1])
         ELSE LET m1 == [AddSource(m, "user-data") EXCEPT !.geojson.user = prop]
                  m2 == AddLayer(m1, "user-fill", "user-data")
                  m3 == AddLayer(m2, "user-line", "user-data")
              IN  FitBounds(m3, prop[1])

\* mutant: the intersection overlay is drawn on a surface cleared of
\* every other source and layer
IntersectionEffectClearsSurface(m, isLoaded, prop) ==
    IF ~isLoaded \/ prop = <<>> THEN m
    ELSE LET m0 == [m EXCEPT !.sources = {}, !.layers = <<>>, !.slopeFC = <<>>]
             m1 == [AddSource(m0, "intersection") EXCEPT !.geojson.intersection = prop]
             m2 == AddLayer(m1, "intersection-fill", "intersection")
         IN  AddLayer(m2, "intersection-line", "intersection")

\* lines 162-179: the intersection overlay
IntersectionEffect(m, isLoaded, prop) ==
    IF ~isLoaded \/ prop = <<>> THEN m
    ELSE IF GetSource(m, "intersection")
         THEN [Logged(m, "setData", "intersection") EXCEPT !.geojson.intersection = prop]
         ELSE LET m1 == [AddSource(m, "intersection") EXCEPT !.geojson.intersection = prop]
                  m2 == AddLayer(m1, "intersection-fill", "intersection")
              IN  AddLayer(m2, "intersection-line", "intersection")

-----------------------------------------------------------------------------
(* MapView.jsx: the hover listeners of 'slope-cells' (lines 279-280); the   *)
(* surface calls them when the pointer comes onto a cell and when it leaves *)

\* mouseenter: every listener sets the pointer cursor
SlopeCellsEnter ==
    /\ UNCHANGED overlayVars
    /\ ~thrown /\ ~map.removed /\ loaded
    /\ GetLayer(map, "slope-cells") /\ map.slopeFC # <<>>
    /\ map.handlers.mouseenter > 0
    /\ ~map.hover
    /\ map' = [map EXCEPT !.log = <<>>, !.hover = TRUE, !.cursor = "pointer"]
    /\ emitted' = [preview |-> <<>>, bbox |-> <<>>]
    /\ UNCHANGED << drawingMode, slopeRectBbox, slopeRanges, slopeData, layers,
                    slopeApi, inflight, lastArrival, loaded, drawStartRef, thrown,
                    downSinceArm >>

\* mouseleave: every listener resets the cursor
SlopeCellsLeave ==
    /\ UNCHANGED overlayVars
    /\ ~thrown /\ ~map.removed /\ loaded
    /\ map.handlers.mouseleave > 0
    /\ map.hover
    /\ map' = [map EXCEPT !.log = <<>>, !.hover = FALSE, !.cursor = ""]
    /\ emitted' = [preview |-> <<>>, bbox |-> <<>>]
    /\ UNCHANGED << drawingMode, slopeRectBbox, slopeRanges, slopeData, layers,
                    slopeApi, inflight, lastArrival, loaded, drawStartRef, thrown,
                    downSinceArm >>

-----------------------------------------------------------------------------
(* MapView.jsx: the drawing effect (lines 285-373) *)

\* mutant: the cleanup removes the listeners and restores nothing else
DrawCleanupListenersOnly(m) ==
    IF ~m.listening THEN m ELSE [m EXCEPT !.listening = FALSE]

\* the cleanup returned at lines 366-372; it exists when the last run of the
\* effect attached the canvas listeners
DrawCleanup(m) ==
    IF ~m.listening THEN m
    ELSE [m EXCEPT !.listening = FALSE, !.dragPan = TRUE, !.cursor = ""]

\* lines 289-298 and 362-364
DrawSetup(m, mode) ==
    IF mode
    THEN [m EXCEPT !.dragPan = FALSE, !.cursor = "crosshair", !.listening = TRUE]
    ELSE [m EXCEPT !.dragPan = TRUE, !.cursor = ""]

\* the effect re-run after drawingMode or loaded changed
DrawEffect(m, isLoaded, mode) ==
    IF ~isLoaded THEN DrawCleanup(m) ELSE DrawSetup(DrawCleanup(m), mode)

-----------------------------------------------------------------------------
(* Input domains of the model *)

\* pointer positions, as the points map.unproject returns for them
\* corners enough for a commit in every direction, a degenerate gesture on
\* each axis and a gesture of exactly 0.001 degree
DrawPoints == { <<0, 0>>, <<5, 5>>, <<0, 5>>, <<5, 0>>, <<2, 2>> }

\* the grids the slope service answers with (rows from the south edge)
Grids ==
    { << << <<1, 5>> >>, << <<30, 80>> >> >>,
      << << <<80, 2>> >>, << <<1000, 60>> >> >> }

\* what the service returns for a request: the bbox is the requested one
Responses(req) ==
    { [ slopes_percent |-> <<g>>, slopes |-> <<>>, bbox |-> req.bbox,
        grid_size |-> Len(g) ] : g \in Grids }

-----------------------------------------------------------------------------
(* Initial state: App.jsx lines 16-42, MapView.jsx lines 56-61 *)

NoEmit == [preview |-> <<>>, bbox |-> <<>>]

NewMap ==
    [ sources   |-> {},
      layers    |-> <<>>,
      slopeFC   |-> <<>>,
      rect      |-> <<>>,
      handlers  |-> [click |-> 0, mouseenter |-> 0, mouseleave |-> 0],
      cursor    |-> "",
      dragPan   |-> TRUE,
      listening |-> FALSE,
      errors    |-> FALSE,
      hover     |-> FALSE,
      removed   |-> FALSE,
      log       |-> <<>>,
      geojson   |-> [concessions |-> <<>>, user |-> <<>>, intersection |-> <<>>],
      fillHandlers |-> [click |-> 0, mouseenter |-> 0, mouseleave |-> 0],
      fit       |-> <<>> ]

\* a hook of useApi before its first execution (MapView.jsx lines 391-393)
NewApi == [data |-> <<>>, loading |-> FALSE, error |-> "null"]

\* the other data states and hooks of App.jsx (lines 27-43)
InitOverlays ==
    /\ concessions = <<>>
    /\ userGeoJSON = <<>>
    /\ elevationData = <<>>
    /\ apis = [concessions |-> NewApi, intersection |-> NewApi, elevation |-> NewApi]
    /\ pending = [concessions |-> <<>>, intersection |-> <<>>, elevation |-> <<>>]

InitApp ==
    /\ InitOverlays
    /\ drawingMode = FALSE
    /\ slopeRectBbox = <<>>
    /\ slopeRanges = <<DEFAULT_RANGES>>
    /\ slopeData = <<>>
    /\ layers = [concessions |-> TRUE, slope |-> TRUE, userData |-> TRUE]
    /\ slopeApi = [data |-> <<>>, loading |-> FALSE, error |-> "null"]
    /\ inflight = <<>>
    /\ lastArrival = [data |-> <<>>, late |-> FALSE]

InitView ==
    /\ loaded = FALSE
    /\ drawStartRef = <<>>
    /\ map = NewMap
    /\ thrown = FALSE
    /\ emitted = NoEmit
    /\ downSinceArm = FALSE

Init == InitApp /\ InitView

appVars ==
    << drawingMode, slopeRectBbox, slopeRanges, slopeData, layers, slopeApi,
       inflight, lastArrival >>

fetchVars == << slopeApi, inflight, lastArrival >>

\* the surface at the start of a handler: the call log starts empty
Fresh(m) == [m EXCEPT !.log = <<>>]

\* mutant: the slope data is handed to the map whatever the layer switch says
SlopePropAlways(ly, sd) == sd

\* slopeData={layers.slope ? slopeData : null}  (App.jsx line 119)
SlopeProp(ly, sd) == IF ly.slope THEN sd ELSE <<>>

\* concessions={layers.concessions ? concessions : null}  (App.jsx line 116)
ConcessionsProp(ly, c) == IF ly.concessions THEN c ELSE <<>>

\* userGeoJSON={layers.userData ? userGeoJSON : null}  (App.jsx line 117)
UserProp(ly, u) == IF ly.userData THEN u ELSE <<>>

\* the three overlay effects in the order they are declared, as they run
\* when `loaded` turns true
OverlayEffects(m) ==
    IntersectionEffect(
        UserEffect(
            ConcessionsEffect(m, TRUE, ConcessionsProp(layers, concessions)),
            TRUE, UserProp(layers, userGeoJSON)),
        TRUE, apis.intersection.data)

-----------------------------------------------------------------------------
(* MapView.jsx: map 'load' (lines 78-83); every effect that depends on      *)
(* `loaded` runs again in the order of declaration: the three overlay       *)
(* effects, the slope effect, the drawing effect                            *)

MapLoad ==
    /\ UNCHANGED overlayVars
    /\ ~loaded /\ ~thrown /\ ~map.removed
    /\ loaded' = TRUE
    /\ map' = DrawEffect(SlopeEffect(OverlayEffects(Fresh(map)), TRUE,
                                     SlopeProp(layers, slopeData), slopeRanges),
                         TRUE, drawingMode)
    /\ thrown' = SlopeEffectThrows(SlopeProp(layers, slopeData), slopeRanges)
    /\ emitted' = NoEmit
    /\ downSinceArm' = (downSinceArm /\ ~drawingMode)
    /\ UNCHANGED << appVars, drawStartRef >>

-----------------------------------------------------------------------------
(* App.jsx handleStartDrawing (lines 66-68) and the drawing effect it       *)
(* re-runs                                                                  *)

ToggleDrawing ==
    /\ UNCHANGED overlayVars
    /\ ~thrown /\ ~map.removed
    /\ drawingMode' = ~drawingMode
    /\ map' = DrawEffect(Fresh(map), loaded, drawingMode')
    /\ downSinceArm' = (downSinceArm /\ ~drawingMode')
    /\ emitted' = NoEmit
    /\ UNCHANGED << slopeRectBbox, slopeRanges, slopeData, layers, fetchVars,
                    loaded, drawStartRef, thrown >>

-----------------------------------------------------------------------------
(* MapView.jsx: the canvas listeners (lines 300-360) *)

\* mousedown at p
MouseDown(p) ==
    /\ UNCHANGED overlayVars
    /\ ~thrown /\ ~map.removed /\ map.listening
    /\ drawStartRef' = p
    /\ map' = Fresh(map)
    /\ emitted' = NoEmit
    /\ downSinceArm' = TRUE
    /\ UNCHANGED << appVars, loaded, thrown >>

\* the rectangle mousemove draws between start and current
PreviewRing(start, current) ==
    << <<start[1], start[2]>>, <<current[1], start[2]>>,
       <<current[1], current[2]>>, <<start[1], current[2]>>,
       <<start[1], start[2]>> >>

\* lines 325-341: the draw-rect source and its two layers
UpsertRect(m, ring) ==
    IF GetSource(m, "draw-rect")
    THEN [Logged(m, "setData", "draw-rect") EXCEPT !.rect = ring]
    ELSE AddLayer(AddLayer([AddSource(m, "draw-rect") EXCEPT !.rect = ring],
                           "draw-rect-fill", "draw-rect"),
                  "draw-rect-line", "draw-rect")

\* mutant: without a recorded start the preview is drawn at the pointer
MouseMoveWithoutStart(p) ==
    /\ UNCHANGED overlayVars
    /\ ~thrown /\ ~map.removed /\ map.listening
    /\ LET start == IF drawStartRef = <<>> THEN p ELSE drawStartRef
       IN  /\ map' = UpsertRect(Fresh(map), PreviewRing(start, p))
           /\ emitted' = [NoEmit EXCEPT !.preview = PreviewRing(start, p)]
    /\ UNCHANGED << appVars, loaded, drawStartRef, thrown, downSinceArm >>

\* mousemove at p
MouseMove(p) ==
    /\ UNCHANGED overlayVars
    /\ ~thrown /\ ~map.removed /\ map.listening
    /\ IF drawStartRef = <<>>
       THEN /\ map' = Fresh(map)
            /\ emitted' = NoEmit
       ELSE /\ map' = UpsertRect(Fresh(map), PreviewRing(drawStartRef, p))
            /\ emitted' = [NoEmit EXCEPT !.preview = PreviewRing(drawStartRef, p)]
    /\ UNCHANGED << appVars, loaded, drawStartRef, thrown, downSinceArm >>

\* 0.001 degree, in units of 0.0005 degree
Eps == 2

\* mutant: one long side is enough
MeaningfulEitherAxis(minx, miny, maxx, maxy) ==
    Abs(maxx - minx) > Eps \/ Abs(maxy - miny) > Eps

\* mutant: a side of exactly 0.001 degree is accepted
MeaningfulInclusive(minx, miny, maxx, maxy) ==
    Abs(maxx - minx) >= Eps /\ Abs(maxy - miny) >= Eps

\* lines 355-356: "Only accept if it's a meaningful rectangle"
Meaningful(minx, miny, maxx, maxy) ==
    Abs(maxx - minx) > Eps /\ Abs(maxy - miny) > Eps

\* line 357: `${minx},${miny},${maxx},${maxy}`
BboxStr(minx, miny, maxx, maxy) == << Str(minx), Str(miny), Str(maxx), Str(maxy) >>

\* mutant: the corners are committed as dragged, start first
CommitAsDragged(start, end) ==
    IF Abs(end[1] - start[1]) > Eps /\ Abs(end[2] - start[2]) > Eps
    THEN << BboxStr(start[1], start[2], end[1], end[2]) >>
    ELSE <<>>

\* the bbox string mouseup hands to onRectangleDrawn, <<>> when it hands none
Commit(start, end) ==
    LET minx == Min(start[1], end[1])
        miny == Min(start[2], end[2])
        maxx == Max(start[1], end[1])
        maxy == Max(start[2], end[2])
    IN  IF Meaningful(minx, miny, maxx, maxy)
        THEN << BboxStr(minx, miny, maxx, maxy) >>
        ELSE <<>>

\* mouseup at p; a commit runs App.jsx handleRectangleDrawn (lines 70-73),
\* which turns drawing mode off and so re-runs the drawing effect
MouseUp(p) ==
    /\ UNCHANGED overlayVars
    /\ ~thrown /\ ~map.removed /\ map.listening
    /\ IF drawStartRef = <<>>
       THEN /\ emitted' = NoEmit
            /\ map' = Fresh(map)
            /\ UNCHANGED << drawStartRef, slopeRectBbox, drawingMode >>
       ELSE /\ drawStartRef' = <<>>
            /\ emitted' = [NoEmit EXCEPT !.bbox = Commit(drawStartRef, p)]
            /\ IF Commit(drawStartRef, p) = <<>>
               THEN /\ map' = Fresh(map)
                    /\ UNCHANGED << slopeRectBbox, drawingMode >>
               ELSE /\ slopeRectBbox' = Commit(drawStartRef, p)[1]
                    /\ drawingMode' = FALSE
                    /\ map' = DrawEffect(Fresh(map), loaded, FALSE)
    /\ UNCHANGED << slopeRanges, slopeData, layers, fetchVars, loaded, thrown,
                    downSinceArm >>

-----------------------------------------------------------------------------
(* Slope generation: SlopeMapPanel.jsx handleGenerate (lines 73-76),        *)
(* App.jsx handleGenerateSlope (lines 75-85), useApi execute                *)

\* mutant: the last entry is removed, whatever the index
RemoveAtLast(q, i) == SubSeq(q, 1, Len(q) - 1)

RemoveAt(q, i) == [ k \in 1..(Len(q) - 1) |-> IF k < i THEN q[k] ELSE q[k + 1] ]

\* the table the panel works on: slopeRanges || DEFAULT_RANGES
PanelRanges == OrElse(slopeRanges, <<DEFAULT_RANGES>>)[1]

\* handleGenerateSlope up to its await: execute() sets loading, clears the
\* error and sends the request; rectBbox and ranges stay in the closure
HandleGenerateSlope(rectBbox, ranges) ==
    /\ UNCHANGED overlayVars
    /\ ~thrown /\ ~map.removed
    /\ rectBbox # <<>>
    /\ Len(inflight) < MaxInflight
    /\ inflight' = Append(inflight, [bbox |-> rectBbox, ranges |-> ranges,
                                     overtaken |-> FALSE])
    /\ slopeApi' = [slopeApi EXCEPT !.loading = TRUE, !.error = "null"]
    /\ map' = Fresh(map)
    /\ emitted' = NoEmit
    /\ UNCHANGED << drawingMode, slopeRectBbox, slopeRanges, slopeData, layers,
                    lastArrival, loaded, drawStartRef, thrown, downSinceArm >>

\* mutant: the button stays enabled while a request is loading
ClickGenerateWhileLoading ==
    /\ slopeRectBbox # <<>>
    /\ HandleGenerateSlope(slopeRectBbox, PanelRanges)

\* the generate button: disabled={!slopeRectBbox || slopeLoading}
ClickGenerate ==
    /\ slopeRectBbox # <<>>
    /\ ~slopeApi.loading
    /\ HandleGenerateSlope(slopeRectBbox, PanelRanges)

\* handleGenerateSlope called by its caller whatever the button shows
CallGenerateSlope == HandleGenerateSlope(slopeRectBbox, PanelRanges)

\* setSlopeRanges(ranges): the table handed over at the click
StoredRanges(req) == <<req.ranges>>

\* mutant: a response overtaken by a later request's response is dropped
StoredDataUnlessStale(req, d) == IF req.overtaken THEN slopeData ELSE <<d>>

\* setSlopeData(data)
StoredData(req, d) == <<d>>

\* the response d to request number i arrives: execute() stores it and
\* clears loading, then handleGenerateSlope stores data, ranges and layer
SlopeFetchResolve(i, d) ==
    /\ UNCHANGED overlayVars
    /\ ~thrown /\ ~map.removed
    /\ slopeApi' = [slopeApi EXCEPT !.data = <<d>>, !.loading = FALSE]
    /\ slopeData' = StoredData(inflight[i], d)
    /\ slopeRanges' = StoredRanges(inflight[i])
    /\ layers' = [layers EXCEPT !.slope = TRUE]
    /\ inflight' = RemoveAt([ k \in 1..Len(inflight) |->
                                IF k < i THEN [inflight[k] EXCEPT !.overtaken = TRUE]
                                ELSE inflight[k] ], i)
    /\ lastArrival' = [data |-> <<d>>, late |-> inflight[i].overtaken]
    /\ map' = SlopeEffect(Fresh(map), loaded, slopeData', slopeRanges')
    /\ thrown' = (loaded /\ SlopeEffectThrows(slopeData', slopeRanges'))
    /\ emitted' = NoEmit
    /\ UNCHANGED << drawingMode, slopeRectBbox, loaded, drawStartRef,
                    downSinceArm >>

\* mutant: the failed request's missing result is stored as the slope data
SlopeFetchRejectStoresNull(i) ==
    /\ UNCHANGED overlayVars
    /\ ~thrown /\ ~map.removed
    /\ slopeApi' = [slopeApi EXCEPT !.error = "Unknown error", !.loading = FALSE]
    /\ inflight' = RemoveAt(inflight, i)
    /\ slopeData' = <<>>
    /\ map' = SlopeEffect(Fresh(map), loaded, <<>>, slopeRanges)
    /\ emitted' = NoEmit
    /\ UNCHANGED << drawingMode, slopeRectBbox, slopeRanges, layers,
                    lastArrival, loaded, drawStartRef, thrown, downSinceArm >>

\* the request fails: execute() stores the message and clears loading, the
\* catch of handleGenerateSlope only logs
SlopeFetchReject(i) ==
    /\ UNCHANGED overlayVars
    /\ ~thrown /\ ~map.removed
    /\ slopeApi' = [slopeApi EXCEPT !.error = "Unknown error", !.loading = FALSE]
    /\ inflight' = RemoveAt(inflight, i)
    /\ map' = Fresh(map)
    /\ emitted' = NoEmit
    /\ UNCHANGED << drawingMode, slopeRectBbox, slopeRanges, slopeData, layers,
                    lastArrival, loaded, drawStartRef, thrown, downSinceArm >>

-----------------------------------------------------------------------------
(* SlopeMapPanel.jsx: the range handlers (lines 28-71); onRangesChange is   *)
(* setSlopeRanges, and the new table re-runs the slope effect               *)

\* the text typed into a number input, and parseFloat of it (<<>> is NaN)
RangeInputs == {"", "1", "80"}

ParseFloat(txt) ==
    CASE txt = "1" -> <<1>>
      [] txt = "80" -> <<80>>
      [] OTHER -> <<>>

\* parseFloat(val) || 0
NumOr0(txt) == IF ParseFloat(txt) = <<>> THEN 0 ELSE ParseFloat(txt)[1]

ColorInputs == {"#000000"}

\* the label rule of lines 40 and 51
LabelOf(lo, hi) == IF lo >= 75 THEN <<lo>> ELSE <<lo, hi>>

\* mutant: the new table is stored and the slope effect does not run again
RangesChangeTableOnly(updated) ==
    /\ UNCHANGED overlayVars
    /\ ~thrown /\ ~map.removed
    /\ slopeRanges' = <<updated>>
    /\ map' = Fresh(map)
    /\ emitted' = NoEmit
    /\ UNCHANGED << drawingMode, slopeRectBbox, slopeData, layers, fetchVars,
                    loaded, drawStartRef, thrown, downSinceArm >>

\* onRangesChange(updated)
RangesChange(updated) ==
    /\ UNCHANGED overlayVars
    /\ ~thrown /\ ~map.removed
    /\ slopeRanges' = <<updated>>
    /\ map' = SlopeEffect(Fresh(map), loaded, SlopeProp(layers, slopeData),
                          slopeRanges')
    /\ thrown' = (loaded /\ SlopeEffectThrows(SlopeProp(layers, slopeData),
                                              slopeRanges'))
    /\ emitted' = NoEmit
    /\ UNCHANGED << drawingMode, slopeRectBbox, slopeData, layers, fetchVars,
                    loaded, drawStartRef, downSinceArm >>

HandleRangeColorChange(idx, newColor) ==
    RangesChange([PanelRanges EXCEPT ![idx].color = newColor])

HandleRangeMinChange(idx, val) ==
    RangesChange([PanelRanges EXCEPT
        ![idx].min = NumOr0(val),
        ![idx].label = LabelOf(NumOr0(val), PanelRanges[idx].max)])

HandleRangeMaxChange(idx, val) ==
    RangesChange([PanelRanges EXCEPT
        ![idx].max = NumOr0(val),
        ![idx].label = LabelOf(PanelRanges[idx].min, NumOr0(val))])

\* mutant: delete without the length test of line 57
HandleDeleteRangeUnguarded(idx) == RangesChange(RemoveAt(PanelRanges, idx))

HandleDeleteRange(idx) ==
    /\ Len(PanelRanges) > 2
    /\ RangesChange(RemoveAt(PanelRanges, idx))

\* const lastMax = ranges[ranges.length - 1]?.max || 100
LastMax(ranges) ==
    IF Len(ranges) = 0 \/ ranges[Len(ranges)].max = 0 THEN 100
    ELSE ranges[Len(ranges)].max

\* mutant: the new range is put in front of the table
HandleAddRangeInFront ==
    /\ Len(PanelRanges) < MaxRanges
    /\ LastMax(PanelRanges) + 25 <= MaxPercent
    /\ RangesChange(<< Range(LastMax(PanelRanges), LastMax(PanelRanges) + 25,
                             "#ff6600",
                             <<LastMax(PanelRanges), LastMax(PanelRanges) + 25>>) >>
                     \o PanelRanges)

HandleAddRange ==
    /\ Len(PanelRanges) < MaxRanges
    /\ LastMax(PanelRanges) + 25 <= MaxPercent
    /\ RangesChange(Append(PanelRanges,
           Range(LastMax(PanelRanges), LastMax(PanelRanges) + 25, "#ff6600",
                 <<LastMax(PanelRanges), LastMax(PanelRanges) + 25>>)))

-----------------------------------------------------------------------------
(* App.jsx handleToggleLayer (lines 109-111) for the slope layer *)

ToggleSlopeLayer ==
    /\ UNCHANGED overlayVars
    /\ ~thrown /\ ~map.removed
    /\ (layers.slope /\ GetSource(map, "slope-cells")
            => map.handlers.click < MaxHandlers)
    /\ layers' = [layers EXCEPT !.slope = ~layers.slope]
    /\ map' = SlopeEffect(Fresh(map), loaded, SlopeProp(layers', slopeData),
                          slopeRanges)
    /\ thrown' = (loaded /\ SlopeEffectThrows(SlopeProp(layers', slopeData),
                                              slopeRanges))
    /\ emitted' = NoEmit
    /\ UNCHANGED << drawingMode, slopeRectBbox, slopeRanges, slopeData, fetchVars,
                    loaded, drawStartRef, downSinceArm >>

-----------------------------------------------------------------------------
(* MapView unmounted: the cleanups of its effects run, map.remove() of the  *)
(* first effect (line 91) and the drawing effect's cleanup (lines 366-372)  *)

Unmount ==
    /\ UNCHANGED overlayVars
    /\ ~thrown /\ ~map.removed
    /\ map' = DrawCleanup([Fresh(map) EXCEPT !.removed = TRUE])
    /\ emitted' = NoEmit
    /\ UNCHANGED << appVars, loaded, drawStartRef, thrown, downSinceArm >>

-----------------------------------------------------------------------------
(* The drawing tool alone: the map loads, drawing is toggled, the pointer   *)
(* moves over the canvas, the view is torn down                             *)

NextDraw ==
    \/ MapLoad
    \/ ToggleDrawing
    \/ \E p \in DrawPoints : MouseDown(p)
    \/ \E p \in DrawPoints : MouseMove(p)
    \/ \E p \in DrawPoints : MouseUp(p)
    \/ Unmount

SpecDraw == Init /\ [][NextDraw]_vars

-----------------------------------------------------------------------------
(* The whole front end, with one gesture and one edit of each kind *)

FewPoints == { <<0, 0>>, <<5, 5>> }

Next ==
    \/ MapLoad
    \/ ToggleDrawing
    \/ \E p \in FewPoints : MouseDown(p)
    \/ \E p \in FewPoints : MouseMove(p)
    \/ \E p \in FewPoints : MouseUp(p)
    \/ ClickGenerate
    \/ \E i \in 1..Len(inflight) : \E d \in Responses(inflight[i]) :
          SlopeFetchResolve(i, d)
    \/ \E i \in 1..Len(inflight) : SlopeFetchReject(i)
    \/ HandleRangeMinChange(1, "80")
    \/ ToggleSlopeLayer

Spec == Init /\ [][Next]_vars

-----------------------------------------------------------------------------
(* handleGenerateSlope called while an earlier call is still waiting: the   *)
(* handler itself has no guard against it.  InitSlope is the application    *)
(* after the map has loaded and the rectangle (0,0)-(5,5) has been drawn    *)
(* and committed, a state Spec reaches by MapLoad, ToggleDrawing,           *)
(* MouseDown and MouseUp                                                    *)

InitSlope ==
    /\ InitOverlays
    /\ loaded = TRUE
    /\ drawStartRef = <<>>
    /\ map = NewMap
    /\ thrown = FALSE
    /\ emitted = [NoEmit EXCEPT !.bbox = << BboxStr(0, 0, 5, 5) >>]
    /\ downSinceArm = TRUE
    /\ drawingMode = FALSE
    /\ slopeRectBbox = BboxStr(0, 0, 5, 5)
    /\ slopeRanges = <<DEFAULT_RANGES>>
    /\ slopeData = <<>>
    /\ layers = [concessions |-> TRUE, slope |-> TRUE, userData |-> TRUE]
    /\ slopeApi = [data |-> <<>>, loading |-> FALSE, error |-> "null"]
    /\ inflight = <<>>
    /\ lastArrival = [data |-> <<>>, late |-> FALSE]

NextHandlers ==
    \/ CallGenerateSlope
    \/ \E i \in 1..Len(inflight) : \E d \in Responses(inflight[i]) :
          SlopeFetchResolve(i, d)
    \/ \E i \in 1..Len(inflight) : SlopeFetchReject(i)
    \/ ToggleSlopeLayer

SpecHandlers == InitSlope /\ [][NextHandlers]_vars

-----------------------------------------------------------------------------
(* The cursor: drawing is toggled while a slope overlay is displayed and    *)
(* the pointer moves over its cells                                         *)

NextCursor ==
    \/ ToggleDrawing
    \/ ClickGenerate
    \/ \E i \in 1..Len(inflight) : \E d \in Responses(inflight[i]) :
          SlopeFetchResolve(i, d)
    \/ ToggleSlopeLayer
    \/ \E p \in FewPoints : MouseDown(p)
    \/ SlopeCellsEnter
    \/ SlopeCellsLeave

SpecCursor == InitSlope /\ [][NextCursor]_vars

-----------------------------------------------------------------------------
(* The slope panel's range editor: one color edit, one edit of the first    *)
(* min and of the last max, delete of any row, add                          *)

NextPanel ==
    \/ \E c \in ColorInputs : HandleRangeColorChange(1, c)
    \/ HandleRangeMinChange(1, "80")
    \/ HandleRangeMaxChange(Len(PanelRanges), "")
    \/ \E idx \in 1..Len(PanelRanges) : HandleDeleteRange(idx)
    \/ HandleAddRange

SpecPanel == InitSlope /\ [][NextPanel]_vars

-----------------------------------------------------------------------------
(* The range editor together with slope generation, which stores the table  *)
(* handed over at the click when the response arrives                       *)

NextTable ==
    \/ HandleRangeMinChange(1, "80")
    \/ HandleRangeMaxChange(Len(PanelRanges), "")
    \/ HandleDeleteRange(1)
    \/ HandleAddRange
    \/ ClickGenerate
    \/ \E i \in 1..Len(inflight) : \E d \in Responses(inflight[i]) :
          SlopeFetchResolve(i, d)
    \/ \E i \in 1..Len(inflight) : SlopeFetchReject(i)

SpecTable == InitSlope /\ [][NextTable]_vars

-----------------------------------------------------------------------------
(* The range editor while a grid is displayed.  InitDisplayed is InitSlope  *)
(* after one click on generate and the arrival of the response, a state     *)
(* SpecTable reaches by ClickGenerate and SlopeFetchResolve.  The first max *)
(* is edited to 80, which makes the first range overlap its successors, the *)
(* last min to 1, which makes the last range catch nearly every value       *)

\* the grid of the response that arrived, one of Grids
DisplayedGrid == << << <<1, 5>> >>, << <<30, 80>> >> >>

InitDisplayed ==
    /\ InitOverlays
    /\ loaded = TRUE
    /\ drawStartRef = <<>>
    /\ thrown = FALSE
    /\ emitted = NoEmit
    /\ downSinceArm = TRUE
    /\ drawingMode = FALSE
    /\ slopeRectBbox = BboxStr(0, 0, 5, 5)
    /\ slopeRanges = <<DEFAULT_RANGES>>
    /\ layers = [concessions |-> TRUE, slope |-> TRUE, userData |-> TRUE]
    /\ inflight = <<>>
    /\ \E d \in { r \in Responses([bbox |-> slopeRectBbox]) :
                      r.slopes_percent = <<DisplayedGrid>> } :
          /\ slopeData = <<d>>
          /\ slopeApi = [data |-> <<d>>, loading |-> FALSE, error |-> "null"]
          /\ lastArrival = [data |-> <<d>>, late |-> FALSE]
          /\ map = SlopeEffect(NewMap, TRUE, <<d>>, <<DEFAULT_RANGES>>)

NextReclassify ==
    \/ \E c \in ColorInputs : HandleRangeColorChange(1, c)
    \/ HandleRangeMinChange(Len(PanelRanges), "1")
    \/ HandleRangeMaxChange(1, "80")
    \/ \E idx \in 1..Len(PanelRanges) : HandleDeleteRange(idx)
    \/ HandleAddRange

SpecReclassify == InitDisplayed /\ [][NextReclassify]_vars

-----------------------------------------------------------------------------
(* Slope generation with every shape of answer the service may give: the    *)
(* front end stores the parsed JSON as it comes (App.jsx lines 78-79) and   *)
(* the slope effect tessellates it                                          *)

\* square grids of 1, 2 and 3 rows
SquareGrids ==
    Grids \cup { << << <<7>> >> >>,
                 << << <<1, 5, 9>> >>, << <<13, 30, 40>> >>, << <<60, 80, 90>> >> >> }

\* grids with a short row and with a null row
RaggedGrids ==
    { << << <<1, 5>> >>, << <<30>> >> >>,
      << << <<1, 5>> >>, <<>> >> }

\* the answers to a request: well-formed ones, with the grid under either
\* name and with or without grid_size, and answers with a ragged grid, no
\* grid, no bbox, a bbox of three tokens and a bbox with a non-numeric token
ServiceAnswers(req) ==
    LET Answer(sp, sl, bb, size) ==
            [ slopes_percent |-> sp, slopes |-> sl, bbox |-> bb, grid_size |-> size ]
        g2 == << << <<1, 5>> >>, << <<30, 80>> >> >>
    IN  { Answer(<<g>>, <<>>, req.bbox, Len(g)) : g \in SquareGrids \cup RaggedGrids }
        \cup { Answer(<<g2>>, <<>>, req.bbox, 0),
               Answer(<<>>, <<g2>>, req.bbox, 2),
               Answer(<<>>, <<>>, req.bbox, 2),
               Answer(<<g2>>, <<>>, <<>>, 2),
               Answer(<<g2>>, <<>>, SubSeq(req.bbox, 1, 3), 2),
               Answer(<<g2>>, <<>>, [req.bbox EXCEPT ![2] = "x"], 2) }

NextTessellate ==
    \/ ClickGenerate
    \/ \E i \in 1..Len(inflight) : \E d \in ServiceAnswers(inflight[i]) :
          SlopeFetchResolve(i, d)
    \/ \E i \in 1..Len(inflight) : SlopeFetchReject(i)
    \/ ToggleSlopeLayer

SpecTessellate == InitSlope /\ [][NextTessellate]_vars

-----------------------------------------------------------------------------
(* Slope generation with answers whose declared grid_size and bbox are the  *)
(* service's own: the effect takes n from grid_size when it is set (line    *)
(* 199) and the corners from the answer's bbox (line 198)                   *)

\* square grids answered over the requested bbox or over the bbox the service
\* snapped it to, with grid_size absent (0), the number of rows, or another
\* number
DeclaredAnswers(req) ==
    { [ slopes_percent |-> <<g>>, slopes |-> <<>>, bbox |-> bb, grid_size |-> size ] :
        g \in SquareGrids, size \in {0, 1, 2, 3}, bb \in {req.bbox, BboxStr(2, 1, 5, 7)} }

NextGeometry ==
    \/ ClickGenerate
    \/ \E i \in 1..Len(inflight) : \E d \in DeclaredAnswers(inflight[i]) :
          SlopeFetchResolve(i, d)
    \/ \E i \in 1..Len(inflight) : SlopeFetchReject(i)
    \/ ToggleSlopeLayer

SpecGeometry == InitSlope /\ [][NextGeometry]_vars

-----------------------------------------------------------------------------
(* App.jsx: the concessions request (lines 53-61), the file load with its   *)
(* intersection and elevation requests (lines 87-107), the layer switches   *)
(* (lines 109-111); useApi's execute (MapView.jsx lines 395-409)            *)

\* execute() up to its await: setLoading(true), setError(null)
Started(api) == [api EXCEPT !.loading = TRUE, !.error = "null"]

\* execute() after a response: setData(result), then finally setLoading(false)
Resolved(api, d) == [api EXCEPT !.data = <<d>>, !.loading = FALSE]

\* execute() after a failure: setError(...), then finally setLoading(false)
Rejected(api) == [api EXCEPT !.error = "Unknown error", !.loading = FALSE]

\* the files the user drops: a collection without features, a collection
\* with one Polygon, a collection with one LineString
UserFiles ==
    { [name |-> "empty", line |-> FALSE, bounds |-> <<>>],
      [name |-> "area", line |-> FALSE, bounds |-> <<"area">>],
      [name |-> "track", line |-> TRUE, bounds |-> <<"track">>] }

\* the concession collections the service answers with
ConcessionAnswers == { [kind |-> "concessions", of |-> "c1"],
                       [kind |-> "concessions", of |-> "c2"] }

\* the service's answer to an intersection request for a file
IntersectionOf(file) == [kind |-> "intersection", of |-> file.name]

\* the service's answer to an elevation request for a file
ProfileOf(file) == [kind |-> "profile", of |-> file.name]

\* the load-concessions button (Sidebar.jsx lines 216-217, disabled while
\* loading); bbox is set once the map has loaded
ClickLoadConcessions ==
    /\ ~thrown /\ ~map.removed
    /\ loaded
    /\ ~apis.concessions.loading
    /\ Len(pending.concessions) < MaxInflight
    /\ apis' = [apis EXCEPT !.concessions = Started(@)]
    /\ pending' = [pending EXCEPT !.concessions = Append(@, [arg |-> "bbox"])]
    /\ map' = Fresh(map)
    /\ emitted' = NoEmit
    /\ UNCHANGED << appVars, loaded, drawStartRef, thrown, downSinceArm,
                    concessions, userGeoJSON, elevationData >>

\* the answer d to concessions request number i arrives; setConcessions(d)
ConcessionsResolve(i, d) ==
    /\ ~thrown /\ ~map.removed
    /\ apis' = [apis EXCEPT !.concessions = Resolved(@, d)]
    /\ pending' = [pending EXCEPT !.concessions = RemoveAt(@, i)]
    /\ concessions' = <<d>>
    /\ map' = ConcessionsEffect(Fresh(map), loaded, ConcessionsProp(layers, concessions'))
    /\ emitted' = NoEmit
    /\ UNCHANGED << appVars, loaded, drawStartRef, thrown, downSinceArm,
                    userGeoJSON, elevationData >>

\* concessions request number i fails
ConcessionsReject(i) ==
    /\ ~thrown /\ ~map.removed
    /\ apis' = [apis EXCEPT !.concessions = Rejected(@)]
    /\ pending' = [pending EXCEPT !.concessions = RemoveAt(@, i)]
    /\ map' = Fresh(map)
    /\ emitted' = NoEmit
    /\ UNCHANGED << appVars, loaded, drawStartRef, thrown, downSinceArm,
                    concessions, userGeoJSON, elevationData >>

\* handleFileLoad up to its first await: the file is stored and the
\* intersection request sent; the drop zone is never disabled
HandleFileLoad(file) ==
    /\ ~thrown /\ ~map.removed
    /\ Len(pending.intersection) < MaxInflight
    /\ userGeoJSON' = <<file>>
    /\ apis' = [apis EXCEPT !.intersection = Started(@)]
    /\ pending' = [pending EXCEPT !.intersection = Append(@, file)]
    /\ map' = UserEffect(Fresh(map), loaded, UserProp(layers, userGeoJSON'))
    /\ emitted' = NoEmit
    /\ UNCHANGED << appVars, loaded, drawStartRef, thrown, downSinceArm,
                    concessions, elevationData >>

\* handleFileLoad after the intersection request: a file with a LineString
\* goes on to the elevation request (lines 96-106)
ElevationStarted(file, a) == IF file.line THEN Started(a) ELSE a

ElevationPending(file, q) == IF file.line THEN Append(q, file) ELSE q

\* the answer to intersection request number i arrives
IntersectionResolve(i) ==
    LET file == pending.intersection[i] IN
    /\ ~thrown /\ ~map.removed
    /\ file.line => Len(pending.elevation) < MaxInflight
    /\ apis' = [apis EXCEPT !.intersection = Resolved(@, IntersectionOf(file)),
                            !.elevation = ElevationStarted(file, @)]
    /\ pending' = [pending EXCEPT !.intersection = RemoveAt(@, i),
                                  !.elevation = ElevationPending(file, @)]
    /\ map' = IntersectionEffect(Fresh(map), loaded, apis'.intersection.data)
    /\ emitted' = NoEmit
    /\ UNCHANGED << appVars, loaded, drawStartRef, thrown, downSinceArm,
                    concessions, userGeoJSON, elevationData >>

\* intersection request number i fails; the failure is logged and the
\* handler goes on
IntersectionReject(i) ==
    LET file == pending.intersection[i] IN
    /\ ~thrown /\ ~map.removed
    /\ file.line => Len(pending.elevation) < MaxInflight
    /\ apis' = [apis EXCEPT !.intersection = Rejected(@),
                            !.elevation = ElevationStarted(file, @)]
    /\ pending' = [pending EXCEPT !.intersection = RemoveAt(@, i),
                                  !.elevation = ElevationPending(file, @)]
    /\ map' = Fresh(map)
    /\ emitted' = NoEmit
    /\ UNCHANGED << appVars, loaded, drawStartRef, thrown, downSinceArm,
                    concessions, userGeoJSON, elevationData >>

\* the answer to elevation request number i arrives; setElevationData
ElevationResolve(i) ==
    /\ ~thrown /\ ~map.removed
    /\ apis' = [apis EXCEPT !.elevation = Resolved(@, ProfileOf(pending.elevation[i]))]
    /\ pending' = [pending EXCEPT !.elevation = RemoveAt(@, i)]
    /\ elevationData' = <<ProfileOf(pending.elevation[i])>>
    /\ map' = Fresh(map)
    /\ emitted' = NoEmit
    /\ UNCHANGED << appVars, loaded, drawStartRef, thrown, downSinceArm,
                    concessions, userGeoJSON >>

\* elevation request number i fails
ElevationReject(i) ==
    /\ ~thrown /\ ~map.removed
    /\ apis' = [apis EXCEPT !.elevation = Rejected(@)]
    /\ pending' = [pending EXCEPT !.elevation = RemoveAt(@, i)]
    /\ map' = Fresh(map)
    /\ emitted' = NoEmit
    /\ UNCHANGED << appVars, loaded, drawStartRef, thrown, downSinceArm,
                    concessions, userGeoJSON, elevationData >>

\* handleToggleLayer('concessions'): the concessions effect runs on the new prop
ToggleConcessionsLayer ==
    /\ ~thrown /\ ~map.removed
    /\ layers' = [layers EXCEPT !.concessions = ~layers.concessions]
    /\ map' = ConcessionsEffect(Fresh(map), loaded, ConcessionsProp(layers', concessions))
    /\ emitted' = NoEmit
    /\ UNCHANGED << drawingMode, slopeRectBbox, slopeRanges, slopeData, fetchVars,
                    loaded, drawStartRef, thrown, downSinceArm, overlayVars >>

\* handleToggleLayer('userData'): the user-data effect runs on the new prop
ToggleUserLayer ==
    /\ ~thrown /\ ~map.removed
    /\ layers' = [layers EXCEPT !.userData = ~layers.userData]
    /\ map' = UserEffect(Fresh(map), loaded, UserProp(layers', userGeoJSON))
    /\ emitted' = NoEmit
    /\ UNCHANGED << drawingMode, slopeRectBbox, slopeRanges, slopeData, fetchVars,
                    loaded, drawStartRef, thrown, downSinceArm, overlayVars >>

\* the answer to a slope request that the overlays are shown with
OverlayAnswer(req) ==
    [ slopes_percent |-> <<DisplayedGrid>>, slopes |-> <<>>, bbox |-> req.bbox,
      grid_size |-> 2 ]

\* the four overlays side by side: concessions are loaded, a file with a
\* Polygon is dropped, a slope grid is generated, the layers are switched
NextOverlays ==
    \/ ClickLoadConcessions
    \/ \E i \in 1..Len(pending.concessions) : \E d \in ConcessionAnswers :
          ConcessionsResolve(i, d)
    \/ ToggleConcessionsLayer
    \/ \E file \in { f \in UserFiles : f.name = "area" } : HandleFileLoad(file)
    \/ \E i \in 1..Len(pending.intersection) : IntersectionResolve(i)
    \/ ToggleUserLayer
    \/ ClickGenerate
    \/ \E i \in 1..Len(inflight) : SlopeFetchResolve(i, OverlayAnswer(inflight[i]))
    \/ ToggleSlopeLayer

SpecOverlays == InitSlope /\ [][NextOverlays]_vars

\* the requests of the concessions, intersection and elevation hooks, which
\* arrive or fail in any order
NextHooks ==
    \/ ClickLoadConcessions
    \/ \E i \in 1..Len(pending.concessions) : \E d \in ConcessionAnswers :
          ConcessionsResolve(i, d)
    \/ \E i \in 1..Len(pending.concessions) : ConcessionsReject(i)
    \/ \E file \in UserFiles : HandleFileLoad(file)
    \/ \E i \in 1..Len(pending.intersection) : IntersectionResolve(i)
    \/ \E i \in 1..Len(pending.intersection) : IntersectionReject(i)
    \/ \E i \in 1..Len(pending.elevation) : ElevationResolve(i)
    \/ \E i \in 1..Len(pending.elevation) : ElevationReject(i)

SpecHooks == InitSlope /\ [][NextHooks]_vars

-----------------------------------------------------------------------------
(* MapView mounted with a grid and a range table as props; the slope effect *)
(* classifies when the map has loaded                                       *)

\* longest table given to the classifier
MaxTable == 3

BoundVals == {0, 1, 2}

CellVals == {-1, 0, 1, 2, 3}

\* a table's i-th range takes the i-th default color
TablesOfLen(n) ==
    { [ i \in 1..n |-> Range(f[i][1], f[i][2], DEFAULT_RANGES[i].color,
                             LabelOf(f[i][1], f[i][2])) ] :
        f \in [1..n -> BoundVals \X BoundVals] }

ClassifyTables == {<<>>} \cup { <<t>> : t \in UNION { TablesOfLen(n) : n \in 0..MaxTable } }

GridData(g) ==
    [ slopes_percent |-> <<g>>, slopes |-> <<>>, bbox |-> BboxStr(0, 0, 5, 5),
      grid_size |-> Len(g) ]

ClassifyGrids ==
    { << << <<v>> >> >> : v \in CellVals } \cup { << << <<0, 1>> >>, << <<2, 3>> >> >> }

InitClassify ==
    /\ InitOverlays
    /\ InitView
    /\ drawingMode = FALSE
    /\ slopeRectBbox = <<>>
    /\ slopeRanges \in ClassifyTables
    /\ slopeData \in { <<GridData(g)>> : g \in ClassifyGrids }
    /\ layers = [concessions |-> TRUE, slope |-> TRUE, userData |-> TRUE]
    /\ slopeApi = [data |-> <<>>, loading |-> FALSE, error |-> "null"]
    /\ inflight = <<>>
    /\ lastArrival = [data |-> <<>>, late |-> FALSE]

NextClassify == MapLoad

SpecClassify == InitClassify /\ [][NextClassify]_vars

-----------------------------------------------------------------------------
(* Properties of the classification (SpecClassify) *)

RECURSIVE CellsFrom(_, _)
\* the cell values of the rows r.. of a grid, in the order they are visited
CellsFrom(grid, r) ==
    IF r > Len(grid) THEN <<>> ELSE grid[r][1] \o CellsFrom(grid, r + 1)

\* the cell values of the current grid
GridCells == IF slopeData = <<>> THEN <<>> ELSE CellsFrom(SlopeGrid(slopeData[1])[1], 1)

\* the current table, empty when the prop is null
GivenTable == IF slopeRanges = <<>> THEN <<>> ELSE slopeRanges[1]

\* the slope effect has classified the current grid
Classified == loaded /\ slopeData # <<>> /\ Len(map.slopeFC) = Len(GridCells)

InRange(v, rng) == rng.min <= v /\ v < rng.max

\* C1: for every value v and every non-empty table, v >= the min of the last
\* range gives the cell the last range's color, also when v lies inside an
\* earlier range and whatever the last range's max is.
C1_CatchAll ==
    (loaded /\ slopeData # <<>> /\ Len(GivenTable) > 0) =>
        /\ Classified
        /\ \A k \in 1..Len(GridCells) :
              GridCells[k] >= GivenTable[Len(GivenTable)].min
                  => map.slopeFC[k].color = GivenTable[Len(GivenTable)].color

\* a cell at or above the last range's min and max, inside an earlier range of
\* another color, was given the last range's color
C1_Witness ==
    /\ Classified
    /\ Len(GivenTable) > 1
    /\ \E k \in 1..Len(GridCells) : \E i \in 1..(Len(GivenTable) - 1) :
          /\ InRange(GridCells[k], GivenTable[i])
          /\ GridCells[k] >= GivenTable[Len(GivenTable)].min
          /\ GridCells[k] >= GivenTable[Len(GivenTable)].max
          /\ GivenTable[i].color # GivenTable[Len(GivenTable)].color
          /\ map.slopeFC[k].color = GivenTable[Len(GivenTable)].color

\* the ranges of the table that hold v
Hits(v) == { i \in 1..Len(GivenTable) : InRange(v, GivenTable[i]) }

FirstHit(v) == CHOOSE i \in Hits(v) : \A j \in Hits(v) : i <= j

\* C2 as stated: whenever a range holds v, the cell gets the color of the first
\* such range; the last range is consulted only when no range matched.
C2_FirstMatchWins ==
    (loaded /\ slopeData # <<>>) =>
        /\ Classified
        /\ \A k \in 1..Len(GridCells) :
              Hits(GridCells[k]) # {}
                  => map.slopeFC[k].color = GivenTable[FirstHit(GridCells[k])].color

\* C2 amended: whenever a range holds v, the cell gets the color of the first
\* such range unless v >= the min of the last range; the last range is
\* consulted after the walk whether or not a range matched, and then its color
\* replaces the walk's.
C2_FirstMatchBelowLast ==
    (loaded /\ slopeData # <<>>) =>
        /\ Classified
        /\ \A k \in 1..Len(GridCells) :
              Hits(GridCells[k]) # {}
                  => map.slopeFC[k].color =
                        IF GridCells[k] >= GivenTable[Len(GivenTable)].min
                        THEN GivenTable[Len(GivenTable)].color
                        ELSE GivenTable[FirstHit(GridCells[k])].color

\* two ranges hold a cell's value, which lies below the last range: the cell
\* has the color of the first of them
C2_Witness ==
    /\ Classified
    /\ \E k \in 1..Len(GridCells) :
          /\ Cardinality(Hits(GridCells[k])) >= 2
          /\ GridCells[k] < GivenTable[Len(GivenTable)].min
          /\ map.slopeFC[k].color = GivenTable[FirstHit(GridCells[k])].color

\* ascending: the mins increase along the table and the maxes never decrease
SortedAscending(t) ==
    \A i \in 1..(Len(t) - 1) : t[i].min < t[i + 1].min /\ t[i].max <= t[i + 1].max

\* ascending and not overlapping: each range ends where the next begins, or before
SortedDisjoint(t) ==
    \A i \in 1..(Len(t) - 1) : t[i].min <= t[i + 1].min /\ t[i].max <= t[i + 1].min

\* C3 as stated: in a table sorted ascending, v inside range i, i not the
\* last, is classified to range i's color.
C3_SortedRangeColor ==
    (loaded /\ slopeData # <<>> /\ SortedAscending(GivenTable)) =>
        /\ Classified
        /\ \A k \in 1..Len(GridCells) : \A i \in 1..(Len(GivenTable) - 1) :
              InRange(GridCells[k], GivenTable[i])
                  => map.slopeFC[k].color = GivenTable[i].color

\* C3 amended: in a table sorted ascending whose ranges do not overlap (each
\* max is at most the next min), v inside range i, i not the last, is
\* classified to range i's color.
C3_DisjointRangeColor ==
    (loaded /\ slopeData # <<>> /\ SortedDisjoint(GivenTable)) =>
        /\ Classified
        /\ \A k \in 1..Len(GridCells) : \A i \in 1..(Len(GivenTable) - 1) :
              InRange(GridCells[k], GivenTable[i])
                  => map.slopeFC[k].color = GivenTable[i].color

\* a cell inside the middle range of a disjoint table of three has its color
C3_Witness ==
    /\ Classified
    /\ SortedDisjoint(GivenTable)
    /\ Len(GivenTable) = 3
    /\ \E k \in 1..Len(GridCells) :
          /\ InRange(GridCells[k], GivenTable[2])
          /\ map.slopeFC[k].color = GivenTable[2].color

\* C4: with an empty or absent table every cell of the grid is classified to
\* the default gray, and no error is raised.
C4_EmptyTableGray ==
    (loaded /\ slopeData # <<>> /\ GivenTable = <<>>) =>
        /\ ~thrown
        /\ ~map.errors
        /\ Classified
        /\ \A k \in 1..Len(GridCells) : map.slopeFC[k].color = "#888888"

\* a grid of four cells was classified with the table absent
C4_Witness ==
    /\ Classified
    /\ slopeRanges = <<>>
    /\ Len(map.slopeFC) = 4
    /\ \A k \in 1..4 : map.slopeFC[k].color = "#888888"

-----------------------------------------------------------------------------
(* Properties of the slope overlay (Spec, SpecHandlers) *)

LayerCount(id) == Cardinality({ i \in 1..Len(map.layers) : map.layers[i].id = id })

\* C5: whatever the sequence of upserts and removes of the slope overlay, the
\* surface holds at most one click, one mouseenter and one mouseleave
\* listener for "slope-cells".
C5_HandlersAttachedOnce ==
    /\ map.handlers.click <= 1
    /\ map.handlers.mouseenter <= 1
    /\ map.handlers.mouseleave <= 1

\* C6: while slope data is displayed, however many times it was upserted, the
\* surface holds one "slope-cells" source, one fill layer and one outline
\* layer on it, and the source's data is the collection upserted last.
C6_OneSourceOneLayerSet ==
    (loaded /\ SlopeProp(layers, slopeData) # <<>>) =>
        /\ GetSource(map, "slope-cells")
        /\ ~map.errors
        /\ LayerCount("slope-cells") = 1
        /\ LayerCount("slope-cells-outline") = 1
        /\ Cardinality({ i \in 1..Len(map.layers) :
                            map.layers[i].source = "slope-cells" }) = 2
        /\ map.slopeFC = Tessellate(slopeData[1], slopeRanges)

\* the last handler upserted into the existing source, and the source holds
\* the new collection
C6_Witness ==
    /\ loaded
    /\ SlopeProp(layers, slopeData) # <<>>
    /\ \E k \in 1..Len(map.log) : map.log[k] = Call("setData", "slope-cells")
    /\ LayerCount("slope-cells") = 1
    /\ LayerCount("slope-cells-outline") = 1
    /\ map.slopeFC = Tessellate(slopeData[1], slopeRanges)

\* C7: when a grid fetch completes, the range table is the one in effect just
\* before the completion, edits made during the fetch included, and the
\* overlay is classified with it.
C7_LiveRangesAtCompletion ==
    [][ \A i \in 1..Len(inflight) : \A d \in Responses(inflight[i]) :
            SlopeFetchResolve(i, d)
                => /\ slopeRanges' = slopeRanges
                   /\ loaded => map'.slopeFC = Tessellate(d, slopeRanges) ]_vars

\* C8: with two fetches in flight, the data and the overlay shown after an
\* arrival are those of the response that arrived last, whatever the order
\* of the requests.
C8_LastArrivalWins ==
    lastArrival.data # <<>> =>
        /\ slopeData = lastArrival.data
        /\ slopeApi.data = lastArrival.data
        /\ (loaded /\ layers.slope)
              => map.slopeFC = Tessellate(lastArrival.data[1], slopeRanges)

\* both fetches have resolved, the older request's response last, and it is
\* the one displayed
C8_Witness ==
    /\ inflight = <<>>
    /\ lastArrival.late
    /\ loaded /\ layers.slope
    /\ slopeData = lastArrival.data
    /\ map.slopeFC = Tessellate(lastArrival.data[1], slopeRanges)

-----------------------------------------------------------------------------
(* Properties of the drawing tool (SpecDraw) *)

\* C9: toggling drawing off during a gesture clears the session start, so
\* that once drawing is armed again nothing is previewed or committed before
\* a new pointer-down.
C9_ToggleDiscardsGesture ==
    /\ (loaded /\ ~drawingMode) => drawStartRef = <<>>
    /\ emitted # NoEmit => downSinceArm

\* C10: a pointer-up at p in a gesture started at s commits the one bbox
\* (min x, min y, max x, max y) exactly when both |p.x - s.x| and |p.y - s.y|
\* exceed 0.001 degree, and the session is cleared afterwards.
C10_CommitRule ==
    [][ \A p \in DrawPoints :
            (MouseUp(p) /\ drawStartRef # <<>>) =>
                LET s == drawStartRef
                    box == << Min(s[1], p[1]), Min(s[2], p[2]),
                              Max(s[1], p[1]), Max(s[2], p[2]) >>
                IN  /\ drawStartRef' = <<>>
                    /\ IF Abs(p[1] - s[1]) > Eps /\ Abs(p[2] - s[2]) > Eps
                       THEN /\ Len(emitted'.bbox) = 1
                            /\ Len(emitted'.bbox[1]) = 4
                            /\ \A k \in 1..4 :
                                  Number(emitted'.bbox[1][k]) = Ratio(box[k], 1)
                            /\ slopeRectBbox' = emitted'.bbox[1]
                       ELSE /\ emitted'.bbox = <<>>
                            /\ slopeRectBbox' = slopeRectBbox ]_vars

\* a gesture has just been committed and the session is cleared
C10_Witness ==
    /\ Len(emitted.bbox) = 1
    /\ slopeRectBbox = emitted.bbox[1]
    /\ drawStartRef = <<>>

\* the four numbers of a committed bbox string
BboxOf(str) == [ k \in 1..4 |-> Number(str[k]) ]

\* a < b for two numbers, false when either is NaN
RLess(a, b) == ~IsNaN(a) /\ ~IsNaN(b) /\ a.num * b.den < b.num * a.den

\* C11: after a rectangle is committed the drawer is Armed: drawing mode is
\* still on, the listeners are attached and no session is open.
C11_ArmedAfterCommit ==
    (loaded /\ emitted.bbox # <<>>) =>
        /\ drawingMode
        /\ map.listening
        /\ drawStartRef = <<>>

\* C12: a pointer-up that ends a gesture with either delta at most 0.001
\* degree commits nothing and raises nothing: the committed bbox is
\* unchanged, the session is cleared and drawing stays armed.
C12_DegenerateDiscarded ==
    [][ \A p \in DrawPoints :
            ( /\ MouseUp(p)
              /\ drawStartRef # <<>>
              /\ (Abs(p[1] - drawStartRef[1]) <= Eps \/ Abs(p[2] - drawStartRef[2]) <= Eps) )
            => /\ emitted'.bbox = <<>>
               /\ slopeRectBbox' = slopeRectBbox
               /\ drawStartRef' = <<>>
               /\ ~thrown' /\ ~map'.errors
               /\ drawingMode' /\ map'.listening
               /\ map'.cursor = "crosshair" /\ ~map'.dragPan ]_vars

\* a gesture was ended and nothing has ever been committed: drawing is still
\* armed, without a session
C12_Witness ==
    /\ loaded /\ drawingMode /\ map.listening
    /\ downSinceArm
    /\ drawStartRef = <<>>
    /\ slopeRectBbox = <<>>
    /\ emitted = NoEmit

\* C13: every committed bbox has minX < maxX and minY < maxY.
C13_BboxNormalized ==
    /\ \A k \in 1..Len(emitted.bbox) :
          /\ Len(emitted.bbox[k]) = 4
          /\ RLess(BboxOf(emitted.bbox[k])[1], BboxOf(emitted.bbox[k])[3])
          /\ RLess(BboxOf(emitted.bbox[k])[2], BboxOf(emitted.bbox[k])[4])
    /\ slopeRectBbox # <<>> =>
          /\ Len(slopeRectBbox) = 4
          /\ RLess(BboxOf(slopeRectBbox)[1], BboxOf(slopeRectBbox)[3])
          /\ RLess(BboxOf(slopeRectBbox)[2], BboxOf(slopeRectBbox)[4])

\* a gesture dragged from the north-east corner to the south-west one was
\* committed as (0, 0, 5, 5)
C13_Witness ==
    /\ Len(emitted.bbox) = 1
    /\ emitted.bbox[1] = BboxStr(0, 0, 5, 5)
    /\ map.rect # <<>>
    /\ map.rect[1] = <<5, 5>>
    /\ map.rect[3] = <<0, 0>>

\* C14: the session start is recorded only from Armed: a step that records
\* a start happens with drawing mode on and no session open, so a
\* pointer-down during a session does not replace the start.
C14_PointerDownOnlyWhenArmed ==
    [][ (drawStartRef' # drawStartRef /\ drawStartRef' # <<>>)
            => (drawingMode /\ drawStartRef = <<>>) ]_vars

\* C15: while drawing mode is on the cursor is crosshair, also after the
\* pointer enters or leaves a slope cell, and it is the default once
\* drawing mode is off and the pointer is on no feature.
C15_CrosshairWhileDrawing ==
    loaded =>
        /\ drawingMode => map.cursor = "crosshair"
        /\ (~drawingMode /\ ~map.hover) => map.cursor = ""

\* C16: once the surface is loaded, panning is disabled exactly while
\* drawing mode is on, and it is enabled after teardown.
C16_PanningOffWhileDrawing ==
    loaded =>
        IF map.removed THEN map.dragPan
        ELSE map.dragPan = ~drawingMode

\* panning is enabled again after a commit turned drawing mode off
C16_Witness ==
    /\ loaded /\ ~map.removed
    /\ emitted.bbox # <<>>
    /\ ~drawingMode
    /\ map.dragPan

-----------------------------------------------------------------------------
(* Properties of the range table (SpecPanel, SpecTable) *)

\* C17: the range table has at least two entries in every reachable state,
\* whatever was added, edited, deleted and generated since the defaults.
C17_AtLeastTwoRanges ==
    /\ slopeRanges # <<>>
    /\ Len(slopeRanges[1]) >= 2

\* the table was cut down to two entries and a generated grid has arrived
C17_Witness ==
    /\ slopeRanges # <<>>
    /\ Len(slopeRanges[1]) = 2
    /\ slopeData # <<>>
    /\ inflight = <<>>

\* C18: delete(i) never acts on a table of length 2; on a longer table it
\* removes entry i and keeps every other entry as it was, in the same order.
C18_DeleteRemovesOne ==
    [][ \A idx \in 1..Len(PanelRanges) :
            HandleDeleteRange(idx) =>
                /\ Len(PanelRanges) > 2
                /\ slopeRanges' # <<>>
                /\ Len(slopeRanges'[1]) = Len(PanelRanges) - 1
                /\ \A k \in 1..Len(slopeRanges'[1]) :
                      slopeRanges'[1][k] =
                          IF k < idx THEN PanelRanges[k] ELSE PanelRanges[k + 1] ]_vars

\* the defaults with rows 1, 2, 4, 5 and 6 deleted: the two rows left are as
\* they were, in their order
C18_Witness ==
    slopeRanges = << << DEFAULT_RANGES[3], DEFAULT_RANGES[7] >> >>

\* the label the derivation rule gives a range
RuleLabel(rng) == IF rng.min >= 75 THEN <<rng.min>> ELSE <<rng.min, rng.max>>

\* C19: in every reachable table each range's label is the one the
\* derivation rule gives for its current bounds.
C19_LabelsFollowRule ==
    \A i \in 1..Len(PanelRanges) : PanelRanges[i].label = RuleLabel(PanelRanges[i])

\* C20: add() on a non-empty table appends one range that starts at the
\* previous last range's max and ends 25 above it, and leaves the existing
\* entries unchanged.
C20_AddStartsAtLastMax ==
    [][ (HandleAddRange /\ Len(PanelRanges) > 0) =>
            /\ slopeRanges' # <<>>
            /\ Len(slopeRanges'[1]) = Len(PanelRanges) + 1
            /\ SubSeq(slopeRanges'[1], 1, Len(PanelRanges)) = PanelRanges
            /\ slopeRanges'[1][Len(PanelRanges) + 1].min
                  = PanelRanges[Len(PanelRanges)].max
            /\ slopeRanges'[1][Len(PanelRanges) + 1].max
                  = PanelRanges[Len(PanelRanges)].max + 25 ]_vars

-----------------------------------------------------------------------------
(* Properties of the range table while a grid is displayed (SpecReclassify) *)

\* new is old with one entry edited in place, one entry appended, or one
\* entry taken out, every other entry at its place relative to the others
KeepsOrder(old, new) ==
    \/ /\ Len(new) = Len(old)
       /\ \E i \in 1..Len(old) : \A k \in 1..Len(old) : k # i => new[k] = old[k]
    \/ /\ Len(new) = Len(old) + 1
       /\ \A k \in 1..Len(old) : new[k] = old[k]
    \/ /\ Len(new) = Len(old) - 1
       /\ \E i \in 1..Len(old) :
             \A k \in 1..Len(new) : new[k] = old[IF k < i THEN k ELSE k + 1]

\* the displayed cells are colored by a walk in list order: below the last
\* range's min a cell has the color of the lowest-indexed range that holds
\* its value
WalksListOrder ==
    (loaded /\ slopeData # <<>> /\ layers.slope) =>
        LET cells == GridCells
            t == GivenTable
        IN  /\ Len(map.slopeFC) = Len(cells)
            /\ \A k \in 1..Len(cells) : \A i \in 1..Len(t) :
                  (/\ InRange(cells[k], t[i])
                   /\ \A j \in 1..(i - 1) : ~InRange(cells[k], t[j])
                   /\ cells[k] < t[Len(t)].min)
                      => map.slopeFC[k].color = t[i].color

\* C21: every step that changes the range table (add, edit-min, edit-max,
\* color-edit, delete) edits one entry in place, appends one entry or removes
\* one entry, so the surviving entries keep their relative order; and the
\* cells displayed after the step are colored by a walk of that list in its
\* order.
C21_NoReorder ==
    [][ /\ slopeRanges' # <<>>
        /\ KeepsOrder(PanelRanges, slopeRanges'[1])
        /\ WalksListOrder' ]_vars

\* the last default was deleted, a range was added behind the others and the
\* first range was widened over its successors: a displayed cell held by two
\* ranges has the color of the first
C21_Witness ==
    /\ Classified
    /\ Len(GivenTable) >= 3
    /\ GivenTable[1].max = 80
    /\ GivenTable[2] = DEFAULT_RANGES[2]
    /\ GivenTable[Len(GivenTable)].color = "#ff6600"
    /\ \E k \in 1..Len(GridCells) :
          /\ Cardinality(Hits(GridCells[k])) >= 2
          /\ GridCells[k] < GivenTable[Len(GivenTable)].min
          /\ map.slopeFC[k].color = GivenTable[1].color

\* the color of value v under table t: the last range's color from its min
\* upward, else the color of the first range in list order that holds v,
\* else gray
ColorUnder(v, t) ==
    IF Len(t) > 0 /\ v >= t[Len(t)].min /\ t[Len(t)].color # ""
    THEN t[Len(t)].color
    ELSE IF \E i \in 1..Len(t) : InRange(v, t[i])
         THEN t[CHOOSE i \in 1..Len(t) :
                   /\ InRange(v, t[i])
                   /\ \A j \in 1..(i - 1) : ~InRange(v, t[j])].color
         ELSE "#888888"

\* C27: a range edit made while a grid is displayed (every step of
\* SpecReclassify is one: the handlers hand a new table to onRangesChange)
\* keeps the stored grid, starts no request, and hands the surface, by
\* setData on the existing source, the same cells colored under the edited
\* table.
C27_EditReclassifies ==
    [][ (loaded /\ layers.slope /\ slopeData # <<>> /\ slopeRanges' # <<>>
             /\ GetSource(map, "slope-cells")) =>
            /\ slopeData' = slopeData
            /\ inflight' = inflight
            /\ slopeApi' = slopeApi
            /\ ~thrown'
            /\ \E i \in 1..Len(map'.log) : map'.log[i] = Call("setData", "slope-cells")
            /\ \A i \in 1..Len(map'.log) : map'.log[i].op # "addSource"
            /\ Len(map'.slopeFC) = Len(GridCells)
            /\ \A k \in 1..Len(GridCells) :
                  /\ map'.slopeFC[k].ring = map.slopeFC[k].ring
                  /\ map'.slopeFC[k].color = ColorUnder(GridCells[k], slopeRanges'[1])
       ]_vars

\* the first range was recolored while the grid was displayed: the cell it
\* holds is displayed in the new color
C27_Witness ==
    /\ Classified
    /\ GivenTable[1].color = "#000000"
    /\ InRange(GridCells[1], GivenTable[1])
    /\ map.slopeFC[1].color = "#000000"
    /\ \E i \in 1..Len(map.log) : map.log[i] = Call("setData", "slope-cells")

-----------------------------------------------------------------------------
(* Properties of the tessellation (SpecTessellate) *)

\* slope data with a grid and a bbox is handed to the loaded map
Tessellated ==
    /\ loaded /\ layers.slope /\ slopeData # <<>>
    /\ SlopeGrid(slopeData[1]) # <<>>
    /\ slopeData[1].bbox # <<>>

\* the grid handed to the map
CurrentGrid == SlopeGrid(slopeData[1])[1]

\* n rows of n values
IsSquare(grid) ==
    /\ Len(grid) >= 1
    /\ \A r \in 1..Len(grid) : grid[r] # <<>> /\ Len(grid[r][1]) = Len(grid)

\* the corner (minx + c * dx, miny + r * dy) of a bbox b cut into n by n
CellCorner(b, n, c, r) ==
    << RAdd(b[1], RMulInt(c, RDivInt(RSub(b[3], b[1]), n))),
       RAdd(b[2], RMulInt(r, RDivInt(RSub(b[4], b[2]), n))) >>

\* C22: when the grid handed to the map has n rows of n values and the bbox
\* is present, the published collection has exactly n * n features and the
\* feature at place r * n + c is the cell (r, c): it spans from the cell's
\* lower-left to its upper-right corner and has the color of the cell's value.
C22_SquareGridFeatures ==
    (Tessellated /\ IsSquare(CurrentGrid)) =>
        LET n == Len(CurrentGrid)
            b == ParseBbox(slopeData[1].bbox)
        IN  /\ ~thrown
            /\ Len(map.slopeFC) = n * n
            /\ \A r \in 0..(n - 1) : \A c \in 0..(n - 1) :
                  LET f == map.slopeFC[r * n + c + 1]
                  IN  /\ f.ring[1] = CellCorner(b, n, c, r)
                      /\ f.ring[3] = CellCorner(b, n, c + 1, r + 1)
                      /\ f.color = Classify(CurrentGrid[r + 1][1][c + 1], GivenTable)

\* a grid of three rows of three is displayed as nine features, the last of
\* them reaching the bbox's upper-right corner
C22_Witness ==
    /\ Tessellated
    /\ IsSquare(CurrentGrid)
    /\ Len(CurrentGrid) = 3
    /\ Len(map.slopeFC) = 9
    /\ map.slopeFC[9].ring[3] = << Ratio(5, 1), Ratio(5, 1) >>

RECURSIVE WellFormedRowsFrom(_, _, _, _, _)
\* the features of the rows r.. that have exactly n values, each row giving
\* its n cells; a row of another length and a null row give none
WellFormedRowsFrom(grid, r, table, b, n) ==
    IF r > Len(grid) THEN <<>>
    ELSE (IF grid[r] # <<>> /\ Len(grid[r][1]) = n
          THEN [ c \in 1..n |-> CellFeature(r - 1, c - 1, grid[r][1][c], table, b, n) ]
          ELSE <<>>)
         \o WellFormedRowsFrom(grid, r + 1, table, b, n)

\* C23: whatever the row lengths of the grid handed to the map, no error is
\* raised and the published features are exactly those of the rows that have
\* the expected n values, n features each; the cells of a row of another
\* length and of a missing row are skipped.
C23_RaggedRowsSkipped ==
    Tessellated =>
        /\ ~thrown
        /\ map.slopeFC =
              WellFormedRowsFrom(CurrentGrid, 1, GivenTable,
                                 ParseBbox(slopeData[1].bbox),
                                 GridN(slopeData[1], CurrentGrid))

\* C24: when the slope data handed to the map lacks its grid or its bbox, no
\* error is raised and the collection displayed for the slope overlay is
\* empty: no cell of earlier data stays displayed.
C24_AbsentPartsPublishEmpty ==
    (/\ loaded /\ layers.slope /\ slopeData # <<>>
     /\ (SlopeGrid(slopeData[1]) = <<>> \/ slopeData[1].bbox = <<>>)) =>
        /\ ~thrown
        /\ map.slopeFC = <<>>

\* not exactly four tokens, or a token that is not a number
MalformedBbox(bboxStr) ==
    \/ Len(bboxStr) # 4
    \/ \E i \in 1..Len(bboxStr) : IsNaN(Number(bboxStr[i]))

\* C25: when the bbox string of the slope data handed to the map is malformed,
\* no error is raised and no feature built from that data is on the surface.
C25_MalformedBboxSkipped ==
    (/\ Tessellated
     /\ MalformedBbox(slopeData[1].bbox)
     /\ ~TessellateThrows(CurrentGrid, slopeRanges)) =>
        /\ ~thrown
        /\ \A k \in 1..Len(map.slopeFC) :
              \A j \in 1..Len(Tessellate(slopeData[1], slopeRanges)) :
                  map.slopeFC[k] # Tessellate(slopeData[1], slopeRanges)[j]

-----------------------------------------------------------------------------
(* Properties of a failed request and of the overlay's life cycle (Spec) *)

\* C26: the step in which a slope request fails sets the error, clears
\* loading, leaves the slope data, the range table, the layer switches and the
\* displayed overlay (collection, source, layers) as they were and makes no
\* call on the surface: nothing is tessellated or classified.
C26_FailureChangesNothing ==
    [][ \A i \in 1..Len(inflight) :
            SlopeFetchReject(i) =>
                /\ slopeApi'.error # "null"
                /\ ~slopeApi'.loading
                /\ slopeData' = slopeData
                /\ slopeRanges' = slopeRanges
                /\ layers' = layers
                /\ map'.slopeFC = map.slopeFC
                /\ map'.sources = map.sources
                /\ map'.layers = map.layers
                /\ map'.log = <<>>
                /\ ~thrown' ]_vars

\* a request has just failed while the cells of an earlier answer are
\* displayed: they are still there
C26_Witness ==
    /\ slopeApi.error = "Unknown error"
    /\ ~slopeApi.loading
    /\ inflight = <<>>
    /\ loaded
    /\ slopeData # <<>>
    /\ GetSource(map, "slope-cells")
    /\ map.slopeFC # <<>>
    /\ map.log = <<>>

\* C28: in a step that ends with the surface torn down, the surface's
\* interaction state (panning, cursor), its sources, layers, layer listeners
\* and collections are what they were before the step: nothing that runs at
\* or after teardown mutates the destroyed surface.
C28_NoMutationAfterTeardown ==
    [][ map'.removed =>
            /\ map'.dragPan = map.dragPan
            /\ map'.cursor = map.cursor
            /\ map'.sources = map.sources
            /\ map'.layers = map.layers
            /\ map'.handlers = map.handlers
            /\ map'.slopeFC = map.slopeFC
            /\ map'.rect = map.rect
            /\ map'.log = <<>>
            /\ ~thrown' ]_vars

\* nothing of the slope overlay is registered on surface m
NoSlopeOverlay(m) ==
    /\ ~GetSource(m, "slope-cells")
    /\ ~GetLayer(m, "slope-cells")
    /\ ~GetLayer(m, "slope-cells-outline")

\* C29: when the slope effect runs with no slope data on a loaded surface
\* that holds neither the "slope-cells" source nor one of its layers (the
\* slope layer is switched, or a range is edited, before any grid is shown),
\* the surface is left as it was, no call is made on it and no error is
\* raised.
C29_RemoveNothingIsNoOp ==
    [][ (/\ ToggleSlopeLayer \/ HandleRangeMinChange(1, "80")
         /\ loaded
         /\ SlopeProp(layers', slopeData') = <<>>
         /\ NoSlopeOverlay(map)) =>
            /\ map' = [map EXCEPT !.log = <<>>]
            /\ ~map'.errors
            /\ ~thrown' ]_vars

\* a range was edited before any grid was generated: the slope effect ran its
\* remove branch on a surface without overlay
C29_Witness ==
    /\ loaded
    /\ slopeData = <<>>
    /\ slopeRanges # <<>>
    /\ slopeRanges[1][1].min = 80
    /\ NoSlopeOverlay(map)
    /\ ~map.errors
    /\ ~thrown

\* C30: the step that takes the slope data away from a surface holding the
\* overlay removes the fill layer, the outline layer and then the source, in
\* this order and without error, and leaves no layer and no source under
\* "slope-cells"; the step that hands slope data to a surface whose overlay
\* was removed before adds the source and both layers, one of each.
C30_RemoveThenRecreate ==
    [][ /\ (loaded /\ GetSource(map, "slope-cells")
                /\ SlopeProp(layers', slopeData') = <<>>) =>
              /\ map'.log = << Call("removeLayer", "slope-cells"),
                               Call("removeLayer", "slope-cells-outline"),
                               Call("removeSource", "slope-cells") >>
              /\ NoSlopeOverlay(map')
              /\ ~map'.errors
        /\ (loaded /\ NoSlopeOverlay(map) /\ map.handlers.click >= 1
                /\ SlopeProp(layers', slopeData') # <<>> /\ ~thrown') =>
              /\ GetSource(map', "slope-cells")
              /\ LayerCount("slope-cells")' = 1
              /\ LayerCount("slope-cells-outline")' = 1
              /\ Cardinality({ i \in 1..Len(map'.log) :
                                  map'.log[i] = Call("addSource", "slope-cells") }) = 1
              /\ Cardinality({ i \in 1..Len(map'.log) :
                                  map'.log[i].op = "addLayer" }) = 2
              /\ ~map'.errors ]_vars

\* the overlay was removed and has just been created again
C30_Witness ==
    /\ loaded
    /\ map.handlers.click = 2
    /\ \E k \in 1..Len(map.log) : map.log[k] = Call("addSource", "slope-cells")
    /\ GetSource(map, "slope-cells")
    /\ LayerCount("slope-cells") = 1
    /\ LayerCount("slope-cells-outline") = 1
    /\ ~map.errors

\* C31: in a step taken with the "slope-cells" source on the surface and
\* leaving it there, the only call made on "slope-cells" is setData: no layer
\* is added or removed, no paint property is set, no listener is attached.
C31_UpdateReplacesDataOnly ==
    [][ (loaded /\ GetSource(map, "slope-cells") /\ GetSource(map', "slope-cells")) =>
            /\ \A i \in 1..Len(map'.log) :
                  map'.log[i].id = "slope-cells" => map'.log[i].op = "setData"
            /\ map'.layers = map.layers
            /\ map'.handlers = map.handlers ]_vars

-----------------------------------------------------------------------------
(* Properties of the pointer listeners (SpecDraw) *)

\* C33: a mousemove or mouseup with no start recorded emits no preview and no
\* bbox and leaves the preview rectangle, the committed bbox and the drawing
\* mode as they were; a mousemove with a start recorded emits the preview and
\* leaves the start, the drawing mode and the committed bbox as they were.
C33_MoveAndUpNeedSession ==
    [][ \A p \in DrawPoints :
            /\ ((MouseMove(p) \/ MouseUp(p)) /\ drawStartRef = <<>>) =>
                  /\ emitted' = NoEmit
                  /\ map'.rect = map.rect
                  /\ map'.log = <<>>
                  /\ drawStartRef' = <<>>
                  /\ slopeRectBbox' = slopeRectBbox
                  /\ drawingMode' = drawingMode
            /\ (MouseMove(p) /\ drawStartRef # <<>>) =>
                  /\ emitted' = [preview |-> PreviewRing(drawStartRef, p), bbox |-> <<>>]
                  /\ drawStartRef' = drawStartRef
                  /\ slopeRectBbox' = slopeRectBbox
                  /\ drawingMode' = drawingMode ]_vars

\* a pointer-move during the second gesture: the preview is emitted, the
\* session's start and the bbox committed by the first gesture are in place
C33_Witness ==
    /\ drawingMode
    /\ drawStartRef = <<0, 0>>
    /\ emitted.preview = PreviewRing(<<0, 0>>, <<5, 5>>)
    /\ slopeRectBbox # <<>>

-----------------------------------------------------------------------------
(* Properties of the cell geometry (SpecTessellate, SpecGeometry) *)

\* the four numbers of a well-formed bbox string
BboxInts(bboxStr) == [ i \in 1..4 |-> Number(bboxStr[i]).num ]

\* lo + k * (hi - lo) / n as a ratio in lowest terms
StepFrom(lo, hi, k, n) == Ratio(lo * n + k * (hi - lo), n)

\* C34: for a grid of n rows of n values declared with grid_size n and a
\* well-formed bbox (minX, minY, maxX, maxY), the feature of cell (r, c) is the
\* ring of five points (x0,y0), (x0+dx,y0), (x0+dx,y0+dy), (x0,y0+dy), (x0,y0)
\* with x0 = minX + c*dx, y0 = minY + r*dy, dx = (maxX-minX)/n and
\* dy = (maxY-minY)/n; cell (0,0) starts at (minX,minY) and the upper-right
\* corner of cell (n-1,n-1) is (maxX,maxY).
C34_CellRing ==
    (/\ Tessellated /\ IsSquare(CurrentGrid)
     /\ slopeData[1].grid_size = Len(CurrentGrid)
     /\ ~MalformedBbox(slopeData[1].bbox)) =>
        LET n == Len(CurrentGrid)
            b == BboxInts(slopeData[1].bbox)
            X(k) == StepFrom(b[1], b[3], k, n)
            Y(k) == StepFrom(b[2], b[4], k, n)
        IN  /\ Len(map.slopeFC) = n * n
            /\ \A r \in 0..(n - 1) : \A c \in 0..(n - 1) :
                  map.slopeFC[r * n + c + 1].ring =
                      << <<X(c), Y(r)>>, <<X(c + 1), Y(r)>>, <<X(c + 1), Y(r + 1)>>,
                         <<X(c), Y(r + 1)>>, <<X(c), Y(r)>> >>
            /\ map.slopeFC[1].ring[1] = << Ratio(b[1], 1), Ratio(b[2], 1) >>
            /\ map.slopeFC[n * n].ring[3] = << Ratio(b[3], 1), Ratio(b[4], 1) >>

\* a grid of two rows of two declared with grid_size 2 over the bbox 2,1,5,7:
\* the last cell is the ring from (7/2, 4) to (5, 7)
C34_Witness ==
    /\ Tessellated
    /\ slopeData[1].grid_size = 2
    /\ Len(map.slopeFC) = 4
    /\ map.slopeFC[4].ring =
          << <<Ratio(7, 2), Ratio(4, 1)>>, <<Ratio(5, 1), Ratio(4, 1)>>,
             <<Ratio(5, 1), Ratio(7, 1)>>, <<Ratio(7, 2), Ratio(7, 1)>>,
             <<Ratio(7, 2), Ratio(4, 1)>> >>

\* a <= b for two numbers, false when either is NaN
RLeq(a, b) == ~IsNaN(a) /\ ~IsNaN(b) /\ a.num * b.den <= b.num * a.den

\* C35: whatever grid_size the slope data declares, every point of every
\* displayed cell ring lies inside the data's bbox.
C35_CellsInsideBbox ==
    (Tessellated /\ ~thrown /\ ~MalformedBbox(slopeData[1].bbox)) =>
        LET b == BboxInts(slopeData[1].bbox)
        IN  \A k \in 1..Len(map.slopeFC) : \A q \in 1..5 :
                /\ RLeq(Ratio(b[1], 1), map.slopeFC[k].ring[q][1])
                /\ RLeq(map.slopeFC[k].ring[q][1], Ratio(b[3], 1))
                /\ RLeq(Ratio(b[2], 1), map.slopeFC[k].ring[q][2])
                /\ RLeq(map.slopeFC[k].ring[q][2], Ratio(b[4], 1))

-----------------------------------------------------------------------------
(* Properties of slope requests and of the layer switch (Spec) *)

\* C36: a step that puts a slope request in flight is taken with a committed
\* bbox and with the slope hook not loading, sends that bbox and leaves it
\* committed; a step that commits a rectangle starts no request; and never
\* more than one slope request is in flight.
C36_OneFetchAtATime ==
    [][ /\ Len(inflight') <= 1
        /\ Len(inflight') > Len(inflight) =>
              /\ slopeRectBbox # <<>>
              /\ ~slopeApi.loading
              /\ inflight = <<>>
              /\ inflight'[1].bbox = slopeRectBbox
              /\ slopeRectBbox' = slopeRectBbox
        /\ slopeRectBbox' # slopeRectBbox => inflight' = inflight ]_vars

\* a second request is in flight while the grid of the first is displayed
C36_Witness ==
    /\ Len(inflight) = 1
    /\ slopeApi.loading
    /\ slopeData # <<>>
    /\ GetSource(map, "slope-cells")

\* C38: on a loaded surface with a fetched grid, switching the slope layer
\* keeps the grid and starts no request; switching it off leaves no
\* "slope-cells" source or layer on the surface, switching it on again puts
\* the source and both layers back with the grid's cells colored under the
\* current range table.
C38_ToggleKeepsGrid ==
    [][ (ToggleSlopeLayer /\ loaded /\ slopeData # <<>>) =>
            /\ slopeData' = slopeData
            /\ slopeRanges' = slopeRanges
            /\ inflight' = inflight
            /\ slopeApi' = slopeApi
            /\ ~thrown'
            /\ IF layers.slope
               THEN /\ NoSlopeOverlay(map')
                    /\ map'.slopeFC = <<>>
               ELSE /\ GetSource(map', "slope-cells")
                    /\ LayerCount("slope-cells")' = 1
                    /\ LayerCount("slope-cells-outline")' = 1
                    /\ Len(map'.slopeFC) = Len(GridCells)
                    /\ \A k \in 1..Len(GridCells) :
                          map'.slopeFC[k].color = ColorUnder(GridCells[k], GivenTable)
       ]_vars

\* the layer was switched off, the first range was edited and the layer was
\* switched on again: the overlay is back, colored under the edited table
C38_Witness ==
    /\ loaded /\ layers.slope /\ slopeData # <<>>
    /\ inflight = <<>>
    /\ GivenTable[1].min = 80
    /\ \E k \in 1..Len(map.log) : map.log[k] = Call("addSource", "slope-cells")
    /\ map.handlers.click = 2
    /\ Len(map.slopeFC) = Len(GridCells)

-----------------------------------------------------------------------------
(* Properties of the overlays side by side (SpecOverlays) *)

SlopeIds == {"slope-cells", "slope-cells-outline"}

OtherIds ==
    {"concessions", "concessions-fill", "concessions-line", "user-data", "user-fill",
     "user-line", "intersection", "intersection-fill", "intersection-line"}

\* the step made a call that names one of ids
Touched(m, ids) == \E i \in 1..Len(m.log) : m.log[i].id \in ids

\* the layers of m fed by the slope source, and the others, in surface order
SlopeLayersOf(m) == SelectSeq(m.layers, LAMBDA l : l.source = "slope-cells")

OtherLayersOf(m) == SelectSeq(m.layers, LAMBDA l : l.source # "slope-cells")

\* C32: a step that upserts or removes the slope overlay leaves the sources,
\* the layers and the data of the concessions, user-data and intersection
\* overlays as they were, and a step that updates one of those leaves the
\* "slope-cells" source, its layers and its data as they were.
C32_OverlaysIndependent ==
    [][ /\ Touched(map', SlopeIds) =>
              /\ map'.sources \ {"slope-cells"} = map.sources \ {"slope-cells"}
              /\ OtherLayersOf(map') = OtherLayersOf(map)
              /\ map'.geojson = map.geojson
              /\ map'.fillHandlers = map.fillHandlers
        /\ Touched(map', OtherIds) =>
              /\ GetSource(map', "slope-cells") <=> GetSource(map, "slope-cells")
              /\ SlopeLayersOf(map') = SlopeLayersOf(map)
              /\ map'.slopeFC = map.slopeFC
              /\ map'.handlers = map.handlers ]_vars

\* the slope overlay was removed from a surface that shows concessions, a
\* file and its intersection, after the intersection was updated next to it
C32_Witness ==
    /\ GetSource(map, "concessions") /\ GetLayer(map, "concessions-fill")
    /\ GetSource(map, "user-data") /\ GetLayer(map, "user-line")
    /\ GetSource(map, "intersection") /\ GetLayer(map, "intersection-line")
    /\ map.geojson.concessions # <<>> /\ map.geojson.intersection # <<>>
    /\ NoSlopeOverlay(map)
    /\ slopeData # <<>>
    /\ \E i \in 1..Len(map.log) : map.log[i] = Call("removeSource", "slope-cells")

-----------------------------------------------------------------------------
(* Properties of the request hooks (SpecHooks) *)

Hooks == {"concessions", "intersection", "elevation"}

\* the answers the service can give to a request of hook h
AnswersTo(h, req) ==
    IF h = "concessions" THEN ConcessionAnswers
    ELSE IF h = "intersection" THEN {IntersectionOf(req)}
    ELSE {ProfileOf(req)}

\* C37: every hook is loading exactly while at least one of its executions
\* is in flight, also when executions overlap, and its data changes only to
\* the answer of an execution that has just come back.
C37_LoadingWhileInFlight ==
    [][ \A h \in Hooks :
          /\ apis'[h].loading <=> pending'[h] # <<>>
          /\ apis'[h].data # apis[h].data =>
                \E i \in 1..Len(pending[h]) :
                    apis'[h].data[1] \in AnswersTo(h, pending[h][i]) ]_vars

====
